---- MODULE Spec2Model ----
(***************************************************************************)
(* A model of the stock data loader: the DownloadRequest / DownloadResult  *)
(* value types, the shared request validation of BaseStockDownloader, and  *)
(* the three downloaders (VnpyStockDownloader, YfinanceStockDownloader,    *)
(* AkshareStockDownloader) with their init_connection and download_bars.   *)
(*                                                                         *)
(* A Python string built by an f-string is a sequence of its parts, so ""  *)
(* is << >> and concatenation is \o.  The message texts of the source are  *)
(* Chinese; each is written here as an ASCII constant named after the line *)
(* that holds it.  A Python call either returns a value or raises: every   *)
(* operator that models a method yields an outcome record                  *)
(*   [kind |-> "return" | "raise", value, exc, calls]                      *)
(* where calls is the sequence of provider-client calls the method made.   *)
(***************************************************************************)
EXTENDS Integers, Sequences, FiniteSets, TLC

\* ------------------------------------------------------------ bounds

\* The largest number of rows (or bars) a provider response carries.
MaxRows == 2

\* The longest symbol list of a batch download.
MaxSymbols == 2

\* ------------------------------------------------------------ enums

\* Python's None.
None == "None"

\* vnpy.trader.constant.Exchange members a request may carry.
Exchanges == {"NYSE", "NASDAQ", "AMEX", "SMART", "SSE"}

\* vnpy.trader.constant.Interval members a request may carry.
Intervals == {"DAILY", "HOUR", "MINUTE", "WEEKLY"}

\* DataSource: the three concrete downloaders.
Adapters == {"vnpy", "yfinance", "akshare"}

\* Every class with a validate_request: the three downloaders and a
\* subclass of BaseStockDownloader that overrides none of the defaults.
Downloaders == Adapters \cup {"base"}

\* Calendar days a timestamp may fall on (day numbers of one month).
Days == {1, 2}

\* An absent start_date or end_date (the default None of DownloadRequest).
NoDate == 0

\* ------------------------------------------------------------ messages

MsgEmpty == << >>
MsgUnsupportedExchange(exchange) == <<"unsupported exchange: ", exchange>>
MsgUnsupportedInterval(interval) == <<"unsupported interval: ", interval>>
MsgEmptySymbol == <<"symbol must not be empty">>
MsgVnpyNotInit == <<"datafeed not initialised, call init_connection first">>
MsgYfNotInit == <<"yfinance", " not initialised, call init_connection first">>
MsgAkNotInit == <<"akshare", " not initialised, call init_connection first">>
MsgAkDailyOnly == <<"akshare", " US stock data supports only daily data">>
MsgAkNoEndpoint == <<"akshare", " US stock endpoint unavailable, check akshare version">>
MsgVnpyNoData == <<"no data retrieved">>
MsgYfNoData == <<"no data retrieved or symbol does not exist">>
MsgAkNoData == <<"no data retrieved or symbol does not exist">>
DownloadFailedText == "data download failed: "
MsgVnpyFailed(e) == <<DownloadFailedText, e.text>>
MsgYfFailed(e) == <<"yfinance", DownloadFailedText, e.text>>
MsgAkFailed_NoText(e) == <<"akshare", DownloadFailedText>>
MsgAkFailed(e) == <<"akshare", DownloadFailedText, e.text>>

\* ------------------------------------------------------------ outcomes

NoExc == [type |-> None, text |-> None]
Return(v, calls) == [kind |-> "return", value |-> v, exc |-> NoExc, calls |-> calls]
Raise(e, calls) == [kind |-> "raise", value |-> None, exc |-> e, calls |-> calls]

\* Exceptions Python itself raises in the modelled code.
TypeErrorNotIterable == [type |-> "TypeError", text |-> "object is not iterable"]
AttrErrorNoAttribute == [type |-> "AttributeError", text |-> "object has no attribute"]
ValueErrorNotFloat == [type |-> "ValueError", text |-> "could not convert string to float"]
ValueErrorBadDate == [type |-> "ValueError", text |-> "time data does not match format"]

\* Exceptions a provider client may raise: a network fault, and an
\* AttributeError raised inside the client at run time.
ProviderExceptions ==
    { [type |-> "Exception", text |-> "network error"],
      [type |-> "AttributeError", text |-> "runtime attribute error"] }

\* ------------------------------------------------------------ base.py

\* DownloadRequest(symbol, exchange, start_date, end_date, interval) with
\* the vt_symbol that __post_init__ derives.
DownloadRequest(symbol, exchange, start_date, end_date, interval) ==
    [symbol |-> symbol, exchange |-> exchange, start_date |-> start_date,
     end_date |-> end_date, interval |-> interval,
     vt_symbol |-> <<symbol, ".", exchange>>]

\* DownloadResult without the derivation of success in __post_init__.
DownloadResult_KeepsFlag(request, bars, success, error_msg, total_count) ==
    [request |-> request, bars |-> bars, success |-> success,
     error_msg |-> error_msg,
     total_count |-> IF bars # << >> THEN Len(bars) ELSE total_count]

\* DownloadResult(request, bars, success, error_msg, total_count) after
\* __post_init__: non-empty bars set total_count and success, empty bars
\* clear success and leave total_count as passed.
DownloadResult(request, bars, success, error_msg, total_count) ==
    IF bars # << >>
    THEN [request |-> request, bars |-> bars, success |-> TRUE,
          error_msg |-> error_msg, total_count |-> Len(bars)]
    ELSE [request |-> request, bars |-> bars, success |-> FALSE,
          error_msg |-> error_msg, total_count |-> total_count]

\* The call shape every downloader uses: total_count left at its default 0.
Result(request, bars, success, error_msg) ==
    DownloadResult(request, bars, success, error_msg, 0)

get_supported_intervals(cls) ==
    CASE cls = "base" -> {"DAILY", "HOUR", "MINUTE"}
      [] cls = "vnpy" -> {"DAILY", "HOUR", "MINUTE"}
      [] cls = "yfinance" -> {"MINUTE", "HOUR", "DAILY"}
      [] cls = "akshare" -> {"DAILY"}

get_supported_exchanges(cls) ==
    CASE cls = "base" -> {"NYSE", "NASDAQ", "AMEX"}
      [] cls = "vnpy" -> {"NYSE", "NASDAQ", "AMEX", "SMART"}
      [] cls = "yfinance" -> {"NYSE", "NASDAQ", "AMEX", "SMART"}
      [] cls = "akshare" -> {"NYSE", "NASDAQ", "AMEX"}

\* The base class answers True for every interval; each concrete
\* downloader overrides it with membership in its own interval list.
is_support_interval(cls, interval) ==
    IF cls = "base" THEN TRUE ELSE interval \in get_supported_intervals(cls)

\* validate_request with the symbol check made first.
validate_request_SymbolFirst(cls, request) ==
    IF request.symbol = ""
    THEN <<FALSE, MsgEmptySymbol>>
    ELSE IF request.exchange \notin get_supported_exchanges(cls)
    THEN <<FALSE, MsgUnsupportedExchange(request.exchange)>>
    ELSE IF ~is_support_interval(cls, request.interval)
    THEN <<FALSE, MsgUnsupportedInterval(request.interval)>>
    ELSE <<TRUE, MsgEmpty>>

\* validate_request: (is_valid, error_msg) as a pair.
validate_request(cls, request) ==
    IF request.exchange \notin get_supported_exchanges(cls)
    THEN <<FALSE, MsgUnsupportedExchange(request.exchange)>>
    ELSE IF ~is_support_interval(cls, request.interval)
    THEN <<FALSE, MsgUnsupportedInterval(request.interval)>>
    ELSE IF request.symbol = ""
    THEN <<FALSE, MsgEmptySymbol>>
    ELSE <<TRUE, MsgEmpty>>

\* ------------------------------------------------------------ requests

\* The requests a caller sends: a supported, a partly supported and an
\* unsupported exchange; a supported, a partly supported and an unsupported
\* interval; an empty and a non-empty symbol; each date bound absent or set.
ReqExchanges == {"NYSE", "SMART", "SSE"}
ReqIntervals == {"DAILY", "MINUTE", "WEEKLY"}
ReqSymbols == {"", "AAPL"}
ReqStarts == {NoDate, 2}
ReqEnds == {NoDate, 1}
Requests ==
    { DownloadRequest(s, x, sd, ed, i) :
        s \in ReqSymbols, x \in ReqExchanges, sd \in ReqStarts,
        ed \in ReqEnds, i \in ReqIntervals }

\* ------------------------------------------------------------ BarData

\* vnpy.trader.object.BarData, as the downloaders fill it.
BarData(symbol, exchange, datetime, interval, gateway_name) ==
    [symbol |-> symbol, exchange |-> exchange, datetime |-> datetime,
     interval |-> interval, gateway_name |-> gateway_name]

\* All sequences over S of length at most n.
SeqUpTo(S, n) == UNION { [1..k -> S] : k \in 0..n }

\* ------------------------------------------------------------ vnpy_downloader.py

\* A bar as the datafeed delivers it: a BarData of the feed's own making,
\* on some day, whose gateway_name is set, empty or (NoAttr) not an
\* attribute of the object at all.
NoAttr == "NoAttr"
FeedBars ==
    { BarData("AAPL", "NYSE", d, "DAILY", g) :
        d \in Days, g \in {NoAttr, "", "existing_gateway"} }

\* What datafeed.query_bar_history does: returns a list of bars, returns
\* None, returns a non-iterable value, or raises.
VnpyResponses ==
    { [kind |-> "bars", bars |-> b, exc |-> NoExc] : b \in SeqUpTo(FeedBars, MaxRows) }
    \cup { [kind |-> k, bars |-> << >>, exc |-> NoExc] : k \in {"none", "scalar"} }
    \cup { [kind |-> "raise", bars |-> << >>, exc |-> e] : e \in ProviderExceptions }

\* The provider call of one download: its name and its argument.
Call(fn, arg) == [fn |-> fn, arg |-> arg]

\* HistoryRequest(symbol, exchange, start, end, interval).
HistoryRequest(request) ==
    [symbol |-> request.symbol, exchange |-> request.exchange,
     start |-> request.start_date, end |-> request.end_date,
     interval |-> request.interval]

\* VnpyConvert with the tag written on every bar.
VnpyConvert_AlwaysTags(bars) ==
    [i \in 1..Len(bars) |-> [bars[i] EXCEPT !.gateway_name = "vnpy_datafeed"]]

\* The loop over the returned bars: a bar without a gateway_name, or with
\* an empty one, gets "vnpy_datafeed" written on it; every bar object is
\* appended as it is, in order.
RECURSIVE VnpyConvert(_)
VnpyConvert(bars) ==
    IF bars = << >> THEN << >>
    ELSE LET bar == Head(bars)
         IN <<IF bar.gateway_name = NoAttr \/ bar.gateway_name = ""
              THEN [bar EXCEPT !.gateway_name = "vnpy_datafeed"]
              ELSE bar>>
            \o VnpyConvert(Tail(bars))

\* The body of the try block of download_bars.
VnpyTryBody(request, resp) ==
    LET calls == <<Call("query_bar_history", HistoryRequest(request))>>
    IN IF resp.kind = "raise" THEN Raise(resp.exc, calls)
       ELSE IF resp.kind \in {"none", "scalar"}
       THEN Raise(TypeErrorNotIterable, calls)
       ELSE LET converted_bars == VnpyConvert(resp.bars)
            IN Return(Result(request, converted_bars,
                             converted_bars # << >>,
                             IF converted_bars # << >> THEN MsgEmpty
                             ELSE MsgVnpyNoData), calls)

\* VnpyExcept without the except clause: the exception propagates.
VnpyExcept_Propagates(request, body) == body

\* except Exception as e: the failure Result built from the exception.
VnpyExcept(request, body) ==
    IF body.kind = "raise"
    THEN Return(Result(request, << >>, FALSE, MsgVnpyFailed(body.exc)), body.calls)
    ELSE body

\* VnpyDownloadBars with the query made before the request is validated.
VnpyDownloadBars_QueryFirst(datafeed, request, resp) ==
    LET v == validate_request("vnpy", request)
        calls == <<Call("query_bar_history", HistoryRequest(request))>>
    IN IF datafeed = None
       THEN Return(Result(request, << >>, FALSE, MsgVnpyNotInit), << >>)
       ELSE IF ~v[1] THEN Return(Result(request, << >>, FALSE, v[2]), calls)
       ELSE VnpyExcept(request, VnpyTryBody(request, resp))

\* VnpyStockDownloader.download_bars on a downloader whose datafeed
\* attribute is `datafeed`.
VnpyDownloadBars(datafeed, request, resp) ==
    LET v == validate_request("vnpy", request)
    IN IF ~v[1] THEN Return(Result(request, << >>, FALSE, v[2]), << >>)
       ELSE IF datafeed = None
       THEN Return(Result(request, << >>, FALSE, MsgVnpyNotInit), << >>)
       ELSE VnpyExcept(request, VnpyTryBody(request, resp))

\* ------------------------------------------------------------ yfinance_downloader.py

\* A row of the table ticker.history returns: its index timestamp (naive or
\* timezone-aware, on a day) and whether its price fields convert to float.
YfRows == [ts : {"naive", "aware"}, day : Days, price : {"num", "bad"}]

\* What ticker.history does: returns a table, None, a value that is no
\* table, or raises.
YfResponses ==
    { [kind |-> "table", rows |-> r, exc |-> NoExc] : r \in SeqUpTo(YfRows, MaxRows) }
    \cup { [kind |-> k, rows |-> << >>, exc |-> NoExc] : k \in {"none", "scalar"} }
    \cup { [kind |-> "raise", rows |-> << >>, exc |-> e] : e \in ProviderExceptions }

_convert_interval_to_yf(interval) ==
    CASE interval = "MINUTE" -> "1m"
      [] interval = "HOUR" -> "1h"
      [] interval = "DAILY" -> "1d"
      [] OTHER -> "1d"

_convert_exchange_to_yf_suffix(exchange) == ""

\* YfConvertRows with a row whose price does not convert skipped.
RECURSIVE YfConvertRows_SkipsBadRow(_, _, _)
YfConvertRows_SkipsBadRow(request, rows, bars) ==
    IF rows = << >> THEN Return(bars, << >>)
    ELSE LET row == Head(rows)
         IN YfConvertRows_SkipsBadRow(request, Tail(rows),
                IF row.price = "bad" THEN bars
                ELSE Append(bars, BarData(request.symbol, request.exchange,
                                          row.day, request.interval, "yfinance")))

\* The loop of _convert_yf_data_to_vnpy over rows: the first row whose
\* price does not convert raises out of the loop; bars is the list so far.
RECURSIVE YfConvertRows(_, _, _)
YfConvertRows(request, rows, bars) ==
    IF rows = << >> THEN Return(bars, << >>)
    ELSE LET row == Head(rows)
         IN IF row.price = "bad" THEN Raise(ValueErrorNotFloat, << >>)
            ELSE YfConvertRows(request, Tail(rows),
                     Append(bars, BarData(request.symbol, request.exchange,
                                          row.day, request.interval, "yfinance")))

\* _convert_yf_data_to_vnpy(df, symbol, exchange, interval).
_convert_yf_data_to_vnpy(request, resp) ==
    IF resp.kind = "none" THEN Return(<< >>, << >>)
    ELSE IF resp.kind = "scalar" THEN Raise(AttrErrorNoAttribute, << >>)
    ELSE IF resp.rows = << >> THEN Return(<< >>, << >>)
    ELSE YfConvertRows(request, resp.rows, << >>)

\* The arguments of Ticker(...).history(...).
YfHistoryArgs(request) ==
    [symbol |-> IF _convert_exchange_to_yf_suffix(request.exchange) # ""
                THEN <<request.symbol, _convert_exchange_to_yf_suffix(request.exchange)>>
                ELSE <<request.symbol>>,
     start |-> request.start_date, end |-> request.end_date,
     interval |-> _convert_interval_to_yf(request.interval),
     auto_adjust |-> TRUE, prepost |-> FALSE, actions |-> FALSE]

\* YfTryBody with the 'no data' message put on every Result.
YfTryBody_AlwaysMessage(request, resp) ==
    LET calls == <<Call("history", YfHistoryArgs(request))>>
    IN IF resp.kind = "raise" THEN Raise(resp.exc, calls)
       ELSE LET conv == _convert_yf_data_to_vnpy(request, resp)
            IN IF conv.kind = "raise" THEN Raise(conv.exc, calls)
               ELSE Return(Result(request, conv.value, conv.value # << >>,
                                  MsgYfNoData), calls)

\* The body of the try block of download_bars.
YfTryBody(request, resp) ==
    LET calls == <<Call("history", YfHistoryArgs(request))>>
    IN IF resp.kind = "raise" THEN Raise(resp.exc, calls)
       ELSE LET conv == _convert_yf_data_to_vnpy(request, resp)
            IN IF conv.kind = "raise" THEN Raise(conv.exc, calls)
               ELSE Return(Result(request, conv.value, conv.value # << >>,
                                  IF conv.value # << >> THEN MsgEmpty
                                  ELSE MsgYfNoData), calls)

\* except Exception as e: the failure Result built from the exception.
YfExcept(request, body) ==
    IF body.kind = "raise"
    THEN Return(Result(request, << >>, FALSE, MsgYfFailed(body.exc)), body.calls)
    ELSE body

\* YfinanceStockDownloader.download_bars on a downloader whose yf attribute
\* is `yf`.
YfDownloadBars(yf, request, resp) ==
    LET v == validate_request("yfinance", request)
    IN IF ~v[1] THEN Return(Result(request, << >>, FALSE, v[2]), << >>)
       ELSE IF yf = None
       THEN Return(Result(request, << >>, FALSE, MsgYfNotInit), << >>)
       ELSE YfExcept(request, YfTryBody(request, resp))

\* ------------------------------------------------------------ akshare_downloader.py

\* The text form of the dates of a table: YYYYMMDD (8 characters),
\* YYYY-MM-DD (10), a full timestamp (19), a valid date in another format
\* that is 8 characters long (MM/DD/YY) or 10 (YYYY/MM/DD), and text that
\* is no date at all.
DateForms == {"YYYYMMDD", "YYYY-MM-DD", "YYYY-MM-DD HH:MM:SS",
              "MM/DD/YY", "YYYY/MM/DD", "junk"}

\* len(date_str) for a date text of the form.
DateLen(form) ==
    CASE form = "YYYYMMDD" -> 8
      [] form = "YYYY-MM-DD" -> 10
      [] form = "YYYY-MM-DD HH:MM:SS" -> 19
      [] form = "MM/DD/YY" -> 8
      [] form = "YYYY/MM/DD" -> 10
      [] form = "junk" -> 4

\* Whether the branch of the conversion chosen by the text's length parses
\* it: strptime with %Y%m%d for 8 characters, with %Y-%m-%d for 10, and
\* pd.to_datetime otherwise.
DateParses(form) ==
    IF DateLen(form) = 8 THEN form = "YYYYMMDD"
    ELSE IF DateLen(form) = 10 THEN form = "YYYY-MM-DD"
    ELSE form # "junk"

\* A row of an akshare table: the day its date text names and whether its
\* price and volume fields convert to float.
AkRows == [day : Days, price : {"num", "bad"}]

\* An akshare table: the column that holds the dates ("date", "Date", or
\* neither, and then the index holds them), the text form of the dates,
\* and the rows.
AkTables ==
    [dateCol : {"date", "Date", "index"}, form : DateForms,
     rows : SeqUpTo(AkRows, MaxRows)]

NoTable == [dateCol |-> "index", form |-> "junk", rows |-> << >>]

\* What one endpoint function of the client does: it is missing from the
\* client (the attribute lookup raises AttributeError and nothing is
\* called), it raises, or it returns a table, None or a value that is no
\* table.
AkEndpointOutcomes ==
    { [kind |-> "table", table |-> t, exc |-> NoExc] : t \in AkTables }
    \cup { [kind |-> k, table |-> NoTable, exc |-> NoExc] :
             k \in {"none", "scalar", "unavailable"} }
    \cup { [kind |-> "raise", table |-> NoTable, exc |-> e] : e \in ProviderExceptions }

\* The secondary endpoint is consulted only after an AttributeError of the
\* primary one; NotConsulted fills the place otherwise.
NotConsulted == [kind |-> "not consulted", table |-> NoTable, exc |-> NoExc]

AkRaisesAttributeError(o) ==
    o.kind = "unavailable" \/ (o.kind = "raise" /\ o.exc.type = "AttributeError")

AkResponses ==
    { [primary |-> p, secondary |-> s] :
        p \in { o \in AkEndpointOutcomes : AkRaisesAttributeError(o) },
        s \in AkEndpointOutcomes }
    \cup { [primary |-> p, secondary |-> NotConsulted] :
        p \in { o \in AkEndpointOutcomes : ~AkRaisesAttributeError(o) } }

\* The calls one endpoint attempt makes: none when the function is missing.
AkCalls(fn, request, o) ==
    IF o.kind = "unavailable" THEN << >> ELSE <<Call(fn, request.symbol)>>

\* The rows of df[df['date'] >= start] and df[df['date'] <= end], in order.
RECURSIVE AkFilterRows(_, _)
AkFilterRows(request, rows) ==
    IF rows = << >> THEN << >>
    ELSE LET row == Head(rows)
             keep == /\ (request.start_date # NoDate => row.day >= request.start_date)
                     /\ (request.end_date # NoDate => row.day <= request.end_date)
         IN (IF keep THEN <<row>> ELSE << >>) \o AkFilterRows(request, Tail(rows))

\* The date filter of download_bars on the value df the endpoint returned:
\* it runs when the request has a date bound; it reads df.columns, rewrites
\* a 'date' column with pd.to_datetime (its text is a full timestamp from
\* then on) and keeps the rows inside the bounds.
AkFilter(request, o) ==
    IF request.start_date = NoDate /\ request.end_date = NoDate THEN Return(o, << >>)
    ELSE IF o.kind \in {"none", "scalar"} THEN Raise(AttrErrorNoAttribute, << >>)
    ELSE IF o.table.dateCol # "date" THEN Return(o, << >>)
    ELSE IF o.table.form = "junk" /\ o.table.rows # << >>
    THEN Raise(ValueErrorBadDate, << >>)
    ELSE Return([o EXCEPT !.table =
                    [dateCol |-> "date", form |-> "YYYY-MM-DD HH:MM:SS",
                     rows |-> AkFilterRows(request, o.table.rows)]], << >>)

\* AkConvertRows with the loop ending at the first row that fails.
RECURSIVE AkConvertRows_StopsAtBadRow(_, _, _)
AkConvertRows_StopsAtBadRow(request, form, rows) ==
    IF rows = << >> THEN << >>
    ELSE LET row == Head(rows)
             ok == DateParses(form) /\ row.price = "num"
         IN IF ok
            THEN <<BarData(request.symbol, request.exchange, row.day,
                           request.interval, "akshare")>>
                 \o AkConvertRows_StopsAtBadRow(request, form, Tail(rows))
            ELSE << >>

\* The loop of _convert_ak_data_to_vnpy: a row whose date text does not
\* parse or whose price does not convert is skipped, every other row
\* yields a bar, in order.
RECURSIVE AkConvertRows(_, _, _)
AkConvertRows(request, form, rows) ==
    IF rows = << >> THEN << >>
    ELSE LET row == Head(rows)
             ok == DateParses(form) /\ row.price = "num"
         IN (IF ok
             THEN <<BarData(request.symbol, request.exchange, row.day,
                            request.interval, "akshare")>>
             ELSE << >>)
            \o AkConvertRows(request, form, Tail(rows))

\* _convert_ak_data_to_vnpy(df, symbol, exchange, interval).
_convert_ak_data_to_vnpy(request, o) ==
    IF o.kind = "none" THEN Return(<< >>, << >>)
    ELSE IF o.kind = "scalar" THEN Raise(AttrErrorNoAttribute, << >>)
    ELSE Return(AkConvertRows(request, o.table.form, o.table.rows), << >>)

\* AkAfterFetch with an empty conversion reported as a success.
AkAfterFetch_EmptyIsSuccess(request, o, calls) ==
    LET f == AkFilter(request, o)
    IN IF f.kind = "raise" THEN Raise(f.exc, calls)
       ELSE LET conv == _convert_ak_data_to_vnpy(request, f.value)
            IN IF conv.kind = "raise" THEN Raise(conv.exc, calls)
               ELSE Return(Result(request, conv.value, TRUE, MsgEmpty), calls)

\* download_bars from the date filter on, for the value df an endpoint
\* returned, after the provider calls `calls`.
AkAfterFetch(request, o, calls) ==
    LET f == AkFilter(request, o)
    IN IF f.kind = "raise" THEN Raise(f.exc, calls)
       ELSE LET conv == _convert_ak_data_to_vnpy(request, f.value)
            IN IF conv.kind = "raise" THEN Raise(conv.exc, calls)
               ELSE Return(Result(request, conv.value, conv.value # << >>,
                                  IF conv.value # << >> THEN MsgEmpty
                                  ELSE MsgAkNoData), calls)

\* AkTryBody without the inner handler of the secondary endpoint: its
\* AttributeError reaches the outer handler.
AkTryBody_SecondaryUnhandled(request, resp) ==
    LET c1 == AkCalls("stock_us_hist", request, resp.primary)
        c2 == c1 \o AkCalls("stock_us_daily", request, resp.secondary)
    IN IF ~AkRaisesAttributeError(resp.primary)
       THEN IF resp.primary.kind = "raise" THEN Raise(resp.primary.exc, c1)
            ELSE AkAfterFetch(request, resp.primary, c1)
       ELSE IF resp.secondary.kind = "unavailable" THEN Raise(AttrErrorNoAttribute, c2)
       ELSE IF resp.secondary.kind = "raise" THEN Raise(resp.secondary.exc, c2)
       ELSE AkAfterFetch(request, resp.secondary, c2)

\* AkTryBody with the secondary endpoint tried after any exception of the
\* primary one, not only after an AttributeError.
AkTryBody_FallbackOnAnyError(request, resp) ==
    LET c1 == AkCalls("stock_us_hist", request, resp.primary)
        c2 == c1 \o <<Call("stock_us_daily", request.symbol)>>
    IN IF resp.primary.kind \notin {"unavailable", "raise"}
       THEN AkAfterFetch(request, resp.primary, c1)
       ELSE IF resp.secondary.kind \in {"not consulted", "unavailable"}
       THEN Return(Result(request, << >>, FALSE, MsgAkNoEndpoint), c2)
       ELSE IF resp.secondary.kind = "raise" THEN Raise(resp.secondary.exc, c2)
       ELSE AkAfterFetch(request, resp.secondary, c2)

\* The body of the outer try block of download_bars: stock_us_hist first,
\* stock_us_daily after an AttributeError of the first, the fixed message
\* after an AttributeError of both.
AkTryBody(request, resp) ==
    LET c1 == AkCalls("stock_us_hist", request, resp.primary)
        c2 == c1 \o AkCalls("stock_us_daily", request, resp.secondary)
    IN IF ~AkRaisesAttributeError(resp.primary)
       THEN IF resp.primary.kind = "raise" THEN Raise(resp.primary.exc, c1)
            ELSE AkAfterFetch(request, resp.primary, c1)
       ELSE IF AkRaisesAttributeError(resp.secondary)
       THEN Return(Result(request, << >>, FALSE, MsgAkNoEndpoint), c2)
       ELSE IF resp.secondary.kind = "raise" THEN Raise(resp.secondary.exc, c2)
       ELSE AkAfterFetch(request, resp.secondary, c2)

\* except Exception as e: the failure Result built from the exception.
AkExcept(request, body) ==
    IF body.kind = "raise"
    THEN Return(Result(request, << >>, FALSE, MsgAkFailed(body.exc)), body.calls)
    ELSE body

\* A download_bars that tests the akshare handle before it validates the
\* request.
AkDownloadBars_HandleFirst(ak, request, resp) ==
    LET v == validate_request("akshare", request)
    IN IF ak = None
       THEN Return(Result(request, << >>, FALSE, MsgAkNotInit), << >>)
       ELSE IF ~v[1] THEN Return(Result(request, << >>, FALSE, v[2]), << >>)
       ELSE IF request.interval # "DAILY"
       THEN Return(Result(request, << >>, FALSE, MsgAkDailyOnly), << >>)
       ELSE AkExcept(request, AkTryBody(request, resp))

\* AkshareStockDownloader.download_bars on a downloader whose ak attribute
\* is `ak`.
AkDownloadBars(ak, request, resp) ==
    LET v == validate_request("akshare", request)
    IN IF ~v[1] THEN Return(Result(request, << >>, FALSE, v[2]), << >>)
       ELSE IF ak = None
       THEN Return(Result(request, << >>, FALSE, MsgAkNotInit), << >>)
       ELSE IF request.interval # "DAILY"
       THEN Return(Result(request, << >>, FALSE, MsgAkDailyOnly), << >>)
       ELSE AkExcept(request, AkTryBody(request, resp))

\* ------------------------------------------------------------ init_connection

\* What `import yfinance` / `import akshare` does inside init_connection.
ImportOutcomes == {"imported", "ImportError", "Exception"}

\* The exceptions an import statement raises.
ImportErrorNoModule == [type |-> "ImportError", text |-> "No module named"]
ExceptionOnImport == [type |-> "Exception", text |-> "import failed"]

\* The try block of init_connection of the yfinance and akshare
\* downloaders, on a downloader whose client attribute is `client`: how it
\* ends and the client attribute it leaves.
ImportInitBody(client, import) ==
    CASE import = "imported" -> [out |-> Return(TRUE, << >>), handle |-> "module"]
      [] import = "ImportError" ->
           [out |-> Raise(ImportErrorNoModule, << >>), handle |-> client]
      [] import = "Exception" ->
           [out |-> Raise(ExceptionOnImport, << >>), handle |-> client]

\* except ImportError / except Exception: both handlers return False.
ImportInitExcept(body) ==
    IF body.out.kind = "raise"
    THEN [out |-> Return(FALSE, body.out.calls), handle |-> body.handle]
    ELSE body

\* init_connection of the yfinance and akshare downloaders.
ImportInitConnection(client, import) ==
    ImportInitExcept(ImportInitBody(client, import))

\* What get_datafeed() and the init routine of the datafeed it returns do:
\* get_datafeed raises; the datafeed has no init; init returns True,
\* returns False, or raises.
DatafeedOutcomes ==
    {"get_datafeed raises", "no init", "init True", "init False", "init raises"}

\* The values a caller passes for datafeed_name, username and password.
InitArgs == [datafeed_name : {"", "rqdata"}, username : {"", "user"},
             password : {"", "secret"}]

\* VnpySettings with every parameter written, the empty ones too.
VnpySettings_WritesEmpty(settings, args) ==
    [settings EXCEPT !.name = args.datafeed_name,
                     !.username = args.username,
                     !.password = args.password]

\* The writes to SETTINGS at the head of init_connection: the keys
\* datafeed.name, datafeed.username and datafeed.password, each only when
\* its parameter is non-empty.
VnpySettings(settings, args) ==
    [settings EXCEPT
       !.name = IF args.datafeed_name # "" THEN args.datafeed_name ELSE @,
       !.username = IF args.username # "" THEN args.username ELSE @,
       !.password = IF args.password # "" THEN args.password ELSE @]

\* What SETTINGS holds when init_connection calls get_datafeed(): the call
\* comes after the writes, inside the same try block.
SettingsAtGetDatafeed(settings, args) == VnpySettings(settings, args)

\* The exceptions get_datafeed() and datafeed.init() raise.
ExceptionGetDatafeed == [type |-> "Exception", text |-> "datafeed creation failed"]
ExceptionInit == [type |-> "Exception", text |-> "init failed"]

\* VnpyInitBody with the result of the init routine ignored.
VnpyInitBody_IgnoresInit(datafeed, feed) ==
    LET got == <<Call("get_datafeed", << >>)>>
        inited == got \o <<Call("init", << >>)>>
    IN CASE feed = "get_datafeed raises" ->
              [out |-> Raise(ExceptionGetDatafeed, got), handle |-> datafeed]
         [] feed = "no init" -> [out |-> Return(TRUE, got), handle |-> "datafeed"]
         [] feed = "init True" -> [out |-> Return(TRUE, inited), handle |-> "datafeed"]
         [] feed = "init False" -> [out |-> Return(TRUE, inited), handle |-> "datafeed"]
         [] feed = "init raises" ->
              [out |-> Raise(ExceptionInit, inited), handle |-> "datafeed"]

\* The try block of VnpyStockDownloader.init_connection after the writes
\* to SETTINGS, on a downloader whose datafeed attribute is `datafeed`:
\* how it ends, the calls it makes and the datafeed attribute it leaves.
\* self.datafeed is assigned before init() is called.
VnpyInitBody(datafeed, feed) ==
    LET got == <<Call("get_datafeed", << >>)>>
        inited == got \o <<Call("init", << >>)>>
    IN CASE feed = "get_datafeed raises" ->
              [out |-> Raise(ExceptionGetDatafeed, got), handle |-> datafeed]
         [] feed = "no init" -> [out |-> Return(TRUE, got), handle |-> "datafeed"]
         [] feed = "init True" -> [out |-> Return(TRUE, inited), handle |-> "datafeed"]
         [] feed = "init False" -> [out |-> Return(FALSE, inited), handle |-> "datafeed"]
         [] feed = "init raises" ->
              [out |-> Raise(ExceptionInit, inited), handle |-> "datafeed"]

\* VnpyInitExcept without the except clause: the exception propagates.
VnpyInitExcept_Propagates(body) == body

\* except Exception as e: print and return False.
VnpyInitExcept(body) ==
    IF body.out.kind = "raise"
    THEN [out |-> Return(FALSE, body.out.calls), handle |-> body.handle]
    ELSE body

\* VnpyStockDownloader.init_connection.
VnpyInitConnection(datafeed, feed) == VnpyInitExcept(VnpyInitBody(datafeed, feed))

\* ------------------------------------------------------------ the state

VARIABLES
    downloader,     \* the class of the downloader object
    handle,         \* its self.datafeed / self.yf / self.ak, None when unset
    init_returned,  \* what its last init_connection returned, "never" before
    SETTINGS,       \* the process-wide vnpy settings of the datafeed
    database,       \* self.database of the StockDataManager, None when unset
    pc,             \* the caller: "idle", or "done" holding a call's outcome
    last            \* the call that has just completed, with its outcome

vars == <<downloader, handle, init_returned, SETTINGS, database, pc, last>>

NoCall == [op |-> "none"]

\* The requests and arguments of a direct construction of a DownloadResult.
CtorRequest == DownloadRequest("AAPL", "NYSE", NoDate, NoDate, "DAILY")
CtorBars ==
    SeqUpTo({ BarData("AAPL", "NYSE", d, "DAILY", "ctor") : d \in Days }, MaxRows)
CtorMessages == {MsgEmpty, <<"network failure">>}
CtorCounts == 0..(MaxRows + 1)

\* The process-wide SETTINGS of vnpy before any init_connection: the three
\* datafeed keys unset and, standing for every other key, database.name.
InitialSettings ==
    [name |-> "", username |-> "", password |-> "", database_name |-> "sqlite"]

Init ==
    /\ downloader \in Downloaders
    /\ handle = None
    /\ init_returned = "never"
    /\ SETTINGS = InitialSettings
    /\ database = None
    /\ pc = "idle"
    /\ last = NoCall

\* A caller constructs a DownloadResult directly.
Construct ==
    /\ pc = "idle"
    /\ \E bars \in CtorBars, success \in BOOLEAN, error_msg \in CtorMessages,
          total_count \in CtorCounts :
         last' = [op |-> "DownloadResult",
                  args |-> [bars |-> bars, success |-> success,
                            error_msg |-> error_msg, total_count |-> total_count],
                  outcome |-> Return(DownloadResult(CtorRequest, bars, success,
                                                    error_msg, total_count), << >>)]
    /\ pc' = "done"
    /\ UNCHANGED <<downloader, handle, init_returned, SETTINGS, database>>

\* downloader.validate_request(request).
ValidateRequest ==
    /\ pc = "idle"
    /\ \E request \in Requests :
         last' = [op |-> "validate_request", request |-> request,
                  outcome |-> Return(validate_request(downloader, request), << >>)]
    /\ pc' = "done"
    /\ UNCHANGED <<downloader, handle, init_returned, SETTINGS, database>>

\* What the caller has seen of an init_connection call that ended as `out`.
InitReturned(out) ==
    IF out.kind = "raise" THEN "raised" ELSE IF out.value THEN "true" ELSE "false"

\* VnpyStockDownloader.init_connection(datafeed_name, username, password).
InitConnectionVnpy ==
    /\ pc = "idle"
    /\ downloader = "vnpy"
    /\ \E args \in InitArgs, feed \in DatafeedOutcomes :
         LET r == VnpyInitConnection(handle, feed)
         IN /\ SETTINGS' = VnpySettings(SETTINGS, args)
            /\ handle' = r.handle
            /\ init_returned' = InitReturned(r.out)
            /\ last' = [op |-> "init_connection", args |-> args, env |-> feed,
                        settings |-> SETTINGS,
                        seen |-> SettingsAtGetDatafeed(SETTINGS, args),
                        outcome |-> r.out]
    /\ pc' = "done"
    /\ UNCHANGED <<downloader, database>>

\* init_connection() of the yfinance and akshare downloaders.
InitConnectionImport ==
    /\ pc = "idle"
    /\ downloader \in {"yfinance", "akshare"}
    /\ \E import \in ImportOutcomes :
         LET r == ImportInitConnection(handle, import)
         IN /\ handle' = r.handle
            /\ init_returned' = InitReturned(r.out)
            /\ last' = [op |-> "init_connection", args |-> << >>, env |-> import,
                        outcome |-> r.out]
    /\ pc' = "done"
    /\ UNCHANGED <<downloader, SETTINGS, database>>

\* Whether download_bars gets as far as the provider client.
ReachesProvider(cls, client, request) ==
    /\ validate_request(cls, request)[1]
    /\ client # None
    /\ (cls = "akshare" => request.interval = "DAILY")

\* What the provider does in answer to one download_bars call; NoResponse
\* when the call returns before asking it.
NoResponse == [kind |-> "not asked"]
Responses(cls, client, request) ==
    IF ~ReachesProvider(cls, client, request) THEN {NoResponse}
    ELSE CASE cls = "vnpy" -> VnpyResponses
           [] cls = "yfinance" -> YfResponses
           [] cls = "akshare" -> AkResponses

\* download_bars of the downloader's class.
download_bars(cls, client, request, resp) ==
    CASE cls = "vnpy" -> VnpyDownloadBars(client, request, resp)
      [] cls = "yfinance" -> YfDownloadBars(client, request, resp)
      [] cls = "akshare" -> AkDownloadBars(client, request, resp)

\* downloader.download_bars(request).
DownloadBars ==
    /\ pc = "idle"
    /\ downloader \in Adapters
    /\ \E request \in Requests :
         \E resp \in Responses(downloader, handle, request) :
            last' = [op |-> "download_bars", request |-> request, resp |-> resp,
                     outcome |-> download_bars(downloader, handle, request, resp)]
    /\ pc' = "done"
    /\ UNCHANGED <<downloader, handle, init_returned, SETTINGS, database>>

\* The tables a caller hands to _convert_ak_data_to_vnpy: a DataFrame or None.
ConvertInputs == { o \in AkEndpointOutcomes : o.kind \in {"table", "none"} }

\* downloader._convert_ak_data_to_vnpy(df, symbol, exchange, interval).
ConvertAkData ==
    /\ pc = "idle"
    /\ downloader = "akshare"
    /\ \E df \in ConvertInputs :
         last' = [op |-> "_convert_ak_data_to_vnpy", request |-> CtorRequest,
                  df |-> df,
                  outcome |-> _convert_ak_data_to_vnpy(CtorRequest, df)]
    /\ pc' = "done"
    /\ UNCHANGED <<downloader, handle, init_returned, SETTINGS, database>>

\* The caller takes the outcome and goes on to its next call.
Continue ==
    /\ pc = "done"
    /\ pc' = "idle"
    /\ last' = NoCall
    /\ UNCHANGED <<downloader, handle, init_returned, SETTINGS, database>>

\* ------------------------------------------------------------ manager.py

\* A StockDataManager holds one downloader per DataSource.  The three are
\* separate objects and a call reaches at most the one its source selects,
\* so the manager is modelled around the downloader above: a call names
\* that downloader's source or a source with no registered downloader.
UnknownSource == "unknown"
ManagerSources(cls) == {cls, UnknownSource}
MsgUnsupportedSource(source) == <<"unsupported data source: ", source>>

\* What get_database() and database.save_bar_data(bars) do.
GetDatabaseOutcomes == {"db", "raises"}
SaveOutcomes == {"True", "False", "raises"}
NotCalled == "not called"

\* StockDataManager.init_database on a manager whose database attribute is
\* `db`: <<return value, database attribute>>.
init_database(db, get) ==
    IF get = "raises" THEN <<FALSE, db>> ELSE <<TRUE, "db">>

\* SaveWanted with the save_to_db flag ignored.
SaveWanted_IgnoresFlag(res, save_to_db) == res.success /\ res.bars # << >>

\* Whether download_stock_data enters its save block.
SaveWanted(res, save_to_db) == save_to_db /\ res.success /\ res.bars # << >>

\* The exception database.save_bar_data raises.
ExceptionSave == [type |-> "Exception", text |-> "database error"]

\* try: success = self.database.save_bar_data(result.bars), and the print
\* of either branch: how the try block ends.
ManagerSaveTry(env) ==
    IF env.save = "raises" THEN Raise(ExceptionSave, << >>) ELSE Return(None, << >>)

\* ManagerSaveExcept without the except clause: the exception propagates.
ManagerSaveExcept_Propagates(body) == body

\* except Exception as e: print, and go on to return the result.
ManagerSaveExcept(body) ==
    IF body.kind = "raise" THEN Return(None, << >>) ELSE body

\* The save block of download_stock_data: how it ends, the database
\* attribute it leaves and the calls it makes to the store factory and the
\* store.
ManagerSave(res, save_to_db, db, env) ==
    IF ~SaveWanted(res, save_to_db)
    THEN [end |-> Return(None, << >>), database |-> db, db_calls |-> << >>]
    ELSE LET got == IF db = None THEN init_database(db, env.get)[2] ELSE db
             c1 == IF db = None THEN <<Call("get_database", << >>)>> ELSE << >>
         IN IF got = None
            THEN [end |-> Return(None, << >>), database |-> got, db_calls |-> c1]
            ELSE [end |-> ManagerSaveExcept(ManagerSaveTry(env)),
                  database |-> got,
                  db_calls |-> c1 \o <<Call("save_bar_data", res.bars)>>]

\* What the store factory and the store do during one download_stock_data
\* call, as far as the call consults them.
NoDbEnv == [get |-> NotCalled, save |-> NotCalled]
DbEnvs(res, save_to_db, db) ==
    IF ~SaveWanted(res, save_to_db) THEN {NoDbEnv}
    ELSE IF db # None THEN {[get |-> NotCalled, save |-> sv] : sv \in SaveOutcomes}
    ELSE {[get |-> "raises", save |-> NotCalled]}
         \cup {[get |-> "db", save |-> sv] : sv \in SaveOutcomes}

\* The exception of self.downloaders[source] for a source that is no key.
KeyErrorSource == [type |-> "KeyError", text |-> "unknown"]

\* ManagerDownload without the membership test of the source.
ManagerDownload_NoSourceCheck(cls, client, source, request, resp) ==
    IF source = UnknownSource THEN Raise(KeyErrorSource, << >>)
    ELSE download_bars(cls, client, request, resp)

\* The download of download_stock_data: the failure Result for a source
\* without a downloader, the selected downloader's download_bars otherwise.
ManagerDownload(cls, client, source, request, resp) ==
    IF source = UnknownSource
    THEN Return(Result(request, << >>, FALSE, MsgUnsupportedSource(source)), << >>)
    ELSE download_bars(cls, client, request, resp)

\* The download_bars calls download_stock_data makes on downloaders.
AdapterCalls(source, request) ==
    IF source = UnknownSource THEN << >> ELSE <<Call("download_bars", request)>>

\* StockDataManager.download_stock_data on a manager whose database
\* attribute is `db` and whose downloader of class cls has the client
\* attribute `client`: how it ends (out, with the provider calls), the
\* download_bars calls and the store calls it makes, and the database
\* attribute it leaves.
download_stock_data(cls, client, db, source, request, save_to_db, resp, env) ==
    LET dl == ManagerDownload(cls, client, source, request, resp)
        unsaved == [out |-> dl, adapter_calls |-> AdapterCalls(source, request),
                    db_calls |-> << >>, database |-> db]
    IN IF source = UnknownSource \/ dl.kind = "raise" THEN unsaved
       ELSE LET sv == ManagerSave(dl.value, save_to_db, db, env)
            IN [out |-> IF sv.end.kind = "raise" THEN Raise(sv.end.exc, dl.calls)
                        ELSE dl,
                adapter_calls |-> AdapterCalls(source, request),
                db_calls |-> sv.db_calls, database |-> sv.database]

\* StockDataManager.init_database().
InitDatabase ==
    /\ pc = "idle"
    /\ downloader \in Adapters
    /\ \E get \in GetDatabaseOutcomes :
         LET r == init_database(database, get)
         IN /\ database' = r[2]
            /\ last' = [op |-> "init_database", env |-> get,
                        outcome |-> Return(r[1], << >>)]
    /\ pc' = "done"
    /\ UNCHANGED <<downloader, handle, init_returned, SETTINGS>>

\* StockDataManager.download_stock_data(symbol, source, exchange,
\* start_date, end_date, interval, save_to_db).
DownloadStockData ==
    /\ pc = "idle"
    /\ downloader \in Adapters
    /\ \E source \in ManagerSources(downloader), request \in Requests,
          save_to_db \in BOOLEAN :
         \E resp \in (IF source = UnknownSource THEN {NoResponse}
                      ELSE Responses(downloader, handle, request)) :
            LET dl == ManagerDownload(downloader, handle, source, request, resp)
            IN \E env \in (IF dl.kind = "raise" THEN {NoDbEnv}
                           ELSE DbEnvs(dl.value, save_to_db, database)) :
                  LET r == download_stock_data(downloader, handle, database, source,
                                               request, save_to_db, resp, env)
                  IN /\ database' = r.database
                     /\ last' = [op |-> "download_stock_data", source |-> source,
                                 request |-> request, save_to_db |-> save_to_db,
                                 resp |-> resp, env |-> env, db |-> database,
                                 adapter_calls |-> r.adapter_calls,
                                 db_calls |-> r.db_calls, outcome |-> r.out]
    /\ pc' = "done"
    /\ UNCHANGED <<downloader, handle, init_returned, SETTINGS>>

\* ---- download_multiple_stocks

\* The symbol lists of a batch and the arguments it passes on for every
\* symbol: source, exchange and save_to_db; the dates and the interval keep
\* their defaults.
BatchSymbolLists == SeqUpTo(ReqSymbols, MaxSymbols)
BatchExchanges == {"NYSE", "SSE"}
BatchArgs ==
    [source : Downloaders \cup {UnknownSource}, exchange : BatchExchanges,
     save_to_db : BOOLEAN]
BatchRequest(symbol, args) ==
    DownloadRequest(symbol, args.exchange, NoDate, NoDate, "DAILY")

\* What the provider answers to the download of one symbol of a batch: a
\* table of one good row, an empty table, or an exception.
NetworkError == CHOOSE e \in ProviderExceptions : e.type = "Exception"
BatchResponses(cls) ==
    CASE cls = "vnpy" ->
           { [kind |-> "bars", bars |-> b, exc |-> NoExc] :
               b \in {<< >>, <<BarData("AAPL", "NYSE", 1, "DAILY", "")>>} }
           \cup { [kind |-> "raise", bars |-> << >>, exc |-> NetworkError] }
      [] cls = "yfinance" ->
           { [kind |-> "table", rows |-> r, exc |-> NoExc] :
               r \in {<< >>, <<[ts |-> "naive", day |-> 1, price |-> "num"]>>} }
           \cup { [kind |-> "raise", rows |-> << >>, exc |-> NetworkError] }
      [] cls = "akshare" ->
           { [primary |-> [kind |-> "table", exc |-> NoExc,
                           table |-> [dateCol |-> "date", form |-> "YYYYMMDD",
                                      rows |-> r]],
              secondary |-> NotConsulted] :
               r \in {<< >>, <<[day |-> 1, price |-> "num"]>>} }
           \cup { [primary |-> [kind |-> "raise", table |-> NoTable,
                                exc |-> NetworkError],
                   secondary |-> NotConsulted] }

\* The answers possible for one symbol of a batch.
BatchAnswers(cls, client, source, request) ==
    IF source = UnknownSource \/ ~ReachesProvider(cls, client, request)
    THEN {NoResponse}
    ELSE BatchResponses(cls)

\* What the store factory and the store do throughout one batch.
BatchDbEnvs(save_to_db) ==
    IF save_to_db THEN [get : GetDatabaseOutcomes, save : SaveOutcomes]
    ELSE {NoDbEnv}

\* The state of the loop of download_multiple_stocks before its first
\* iteration, results = [], on a manager whose database attribute is db.
BatchStart(db) ==
    [out |-> Return(<< >>, << >>), adapter_calls |-> << >>,
     db_calls |-> << >>, database |-> db]

\* One iteration of the loop: results.append(result) after the
\* download_stock_data call that ended as `one`.
BatchAppend(acc, one) ==
    [out |-> IF one.out.kind = "raise"
             THEN Raise(one.out.exc, acc.out.calls \o one.out.calls)
             ELSE Return(Append(acc.out.value, one.out.value),
                         acc.out.calls \o one.out.calls),
     adapter_calls |-> acc.adapter_calls \o one.adapter_calls,
     db_calls |-> acc.db_calls \o one.db_calls,
     database |-> one.database]

\* download_multiple_stocks with the loop left at the first failed Result.
RECURSIVE download_multiple_stocks_StopsAtFailure(_, _, _, _, _, _, _)
download_multiple_stocks_StopsAtFailure(cls, client, symbols, args, resps, env, acc) ==
    IF symbols = << >> \/ acc.out.kind = "raise" THEN acc
    ELSE IF acc.out.value # << >> /\ ~acc.out.value[Len(acc.out.value)].success
    THEN acc
    ELSE download_multiple_stocks_StopsAtFailure(
             cls, client, Tail(symbols), args, Tail(resps), env,
             BatchAppend(acc, download_stock_data(
                                  cls, client, acc.database, args.source,
                                  BatchRequest(Head(symbols), args),
                                  args.save_to_db, Head(resps), env)))

\* The loop of StockDataManager.download_multiple_stocks from the state
\* acc on: one download_stock_data call per symbol left, in list order,
\* each Result appended to the list returned; Head(resps) is the provider's
\* answer during the download of Head(symbols).
RECURSIVE download_multiple_stocks(_, _, _, _, _, _, _)
download_multiple_stocks(cls, client, symbols, args, resps, env, acc) ==
    IF symbols = << >> \/ acc.out.kind = "raise" THEN acc
    ELSE download_multiple_stocks(
             cls, client, Tail(symbols), args, Tail(resps), env,
             BatchAppend(acc, download_stock_data(
                                  cls, client, acc.database, args.source,
                                  BatchRequest(Head(symbols), args),
                                  args.save_to_db, Head(resps), env)))

\* StockDataManager.download_multiple_stocks(symbols, source, exchange,
\* save_to_db=save_to_db).
DownloadMultipleStocks ==
    /\ pc = "idle"
    /\ downloader \in Adapters
    /\ \E symbols \in BatchSymbolLists, args \in BatchArgs :
         /\ args.source \in ManagerSources(downloader)
         /\ \E resps \in [1..Len(symbols) -> BatchResponses(downloader) \cup {NoResponse}],
               env \in BatchDbEnvs(args.save_to_db) :
              /\ \A i \in 1..Len(symbols) :
                   resps[i] \in BatchAnswers(downloader, handle, args.source,
                                             BatchRequest(symbols[i], args))
              /\ LET r == download_multiple_stocks(downloader, handle, symbols, args,
                                                   resps, env, BatchStart(database))
                 IN /\ database' = r.database
                    /\ last' = [op |-> "download_multiple_stocks",
                                symbols |-> symbols, args |-> args,
                                resps |-> resps, env |-> env, db |-> database,
                                adapter_calls |-> r.adapter_calls,
                                db_calls |-> r.db_calls, outcome |-> r.out]
    /\ pc' = "done"
    /\ UNCHANGED <<downloader, handle, init_returned, SETTINGS>>

\* ---- init_datasource, validate_download_request, get_database_overview,
\* ---- delete_stock_data

\* StockDataManager.init_datasource(source, **kwargs) on a manager whose
\* downloader of class cls has the client attribute `client`: how it ends
\* and the client attribute it leaves; env is what the provider library
\* does during init_connection.
init_datasource(cls, client, source, env) ==
    IF source = UnknownSource
    THEN [out |-> Return(FALSE, << >>), handle |-> client]
    ELSE IF cls = "vnpy" THEN VnpyInitConnection(client, env)
    ELSE ImportInitConnection(client, env)

\* What the provider library can do during init_datasource.
InitEnvs(cls, source) ==
    IF source = UnknownSource THEN {NotCalled}
    ELSE IF cls = "vnpy" THEN DatafeedOutcomes ELSE ImportOutcomes

\* The messages of validate_download_request.
MsgSourceNoExchange(source, exchange) ==
    <<"source ", source, " does not support exchange ", exchange>>
MsgSourceNoInterval(source, interval) ==
    <<"source ", source, " does not support interval ", interval>>

\* StockDataManager.validate_download_request(symbol, source, exchange,
\* interval): (is_valid, error_msg) as a pair.  The symbol is not looked at.
validate_download_request(cls, symbol, source, exchange, interval) ==
    IF source = UnknownSource THEN <<FALSE, MsgUnsupportedSource(source)>>
    ELSE IF exchange \notin get_supported_exchanges(cls)
    THEN <<FALSE, MsgSourceNoExchange(source, exchange)>>
    ELSE IF ~is_support_interval(cls, interval)
    THEN <<FALSE, MsgSourceNoInterval(source, interval)>>
    ELSE <<TRUE, MsgEmpty>>

\* What database.get_bar_overview() and database.delete_bar_data(...) do.
OverviewOutcomes == {"list", "raises"}
DeleteOutcomes == {"count", "raises"}
ExceptionStore == [type |-> "Exception", text |-> "database error"]
Overview == <<"overview entry">>

\* EnsureDatabase with the store factory called on every use.
EnsureDatabase_AlwaysAcquires(db, env) ==
    [database |-> IF env.get = NotCalled THEN "db" ELSE init_database(db, env.get)[2],
     db_calls |-> <<Call("get_database", << >>)>>]

\* `if not self.database: self.init_database()` at the head of
\* get_database_overview and delete_stock_data: the database attribute it
\* leaves and the calls it makes to the store factory.
EnsureDatabase(db, env) ==
    IF db # None THEN [database |-> db, db_calls |-> << >>]
    ELSE [database |-> init_database(db, env.get)[2],
          db_calls |-> <<Call("get_database", << >>)>>]

\* What the store factory and the store do during one get_database_overview
\* or delete_stock_data call, as far as the call consults them.
StoreEnvs(db, outcomes) ==
    IF db # None THEN {[get |-> NotCalled, use |-> u] : u \in outcomes}
    ELSE {[get |-> "raises", use |-> NotCalled]}
         \cup {[get |-> "db", use |-> u] : u \in outcomes}

\* The try block of get_database_overview.
OverviewTry(env) ==
    IF env.use = "raises" THEN Raise(ExceptionStore, << >>)
    ELSE Return(Overview, << >>)

\* except Exception as e: print, and fall through to `return []`.
OverviewExcept(body) ==
    IF body.kind = "raise" THEN Return(<< >>, << >>) ELSE body

\* StockDataManager.get_database_overview().
get_database_overview(db, env) ==
    LET e == EnsureDatabase(db, env)
    IN IF e.database = None
       THEN [out |-> Return(<< >>, << >>), database |-> e.database,
             db_calls |-> e.db_calls]
       ELSE [out |-> OverviewExcept(OverviewTry(env)), database |-> e.database,
             db_calls |-> e.db_calls \o <<Call("get_bar_overview", << >>)>>]

\* The try block of delete_stock_data.
DeleteTry(env) ==
    IF env.use = "raises" THEN Raise(ExceptionStore, << >>)
    ELSE Return(TRUE, << >>)

\* DeleteExcept without the except clause: the exception propagates.
DeleteExcept_Propagates(body) == body

\* except Exception as e: print, and fall through to `return False`.
DeleteExcept(body) ==
    IF body.kind = "raise" THEN Return(FALSE, << >>) ELSE body

\* StockDataManager.delete_stock_data(symbol, exchange, interval).
delete_stock_data(db, symbol, exchange, interval, env) ==
    LET e == EnsureDatabase(db, env)
    IN IF e.database = None
       THEN [out |-> Return(FALSE, << >>), database |-> e.database,
             db_calls |-> e.db_calls]
       ELSE [out |-> DeleteExcept(DeleteTry(env)), database |-> e.database,
             db_calls |-> e.db_calls
                          \o <<Call("delete_bar_data", <<symbol, exchange, interval>>)>>]

\* manager.init_datasource(source, datafeed_name=..., username=..., password=...).
InitDatasource ==
    /\ pc = "idle"
    /\ downloader \in Adapters
    /\ \E source \in ManagerSources(downloader), args \in InitArgs :
         /\ (source = UnknownSource \/ downloader # "vnpy") =>
               args = [datafeed_name |-> "", username |-> "", password |-> ""]
         /\ \E env \in InitEnvs(downloader, source) :
              LET r == init_datasource(downloader, handle, source, env)
              IN /\ SETTINGS' = IF source = UnknownSource \/ downloader # "vnpy"
                                THEN SETTINGS ELSE VnpySettings(SETTINGS, args)
                 /\ handle' = r.handle
                 /\ init_returned' = IF source = UnknownSource THEN init_returned
                                     ELSE InitReturned(r.out)
                 /\ last' = [op |-> "init_datasource", source |-> source,
                             args |-> args, env |-> env, outcome |-> r.out]
    /\ pc' = "done"
    /\ UNCHANGED <<downloader, database>>

\* manager.validate_download_request(symbol, source, exchange, interval).
ValidateDownloadRequest ==
    /\ pc = "idle"
    /\ downloader \in Adapters
    /\ \E source \in ManagerSources(downloader), symbol \in ReqSymbols,
          exchange \in ReqExchanges, interval \in ReqIntervals :
         last' = [op |-> "validate_download_request", source |-> source,
                  request |-> DownloadRequest(symbol, exchange, NoDate, NoDate,
                                              interval),
                  outcome |-> Return(validate_download_request(
                                         downloader, symbol, source, exchange,
                                         interval), << >>)]
    /\ pc' = "done"
    /\ UNCHANGED <<downloader, handle, init_returned, SETTINGS, database>>

\* manager.get_database_overview().
GetDatabaseOverview ==
    /\ pc = "idle"
    /\ downloader \in Adapters
    /\ \E env \in StoreEnvs(database, OverviewOutcomes) :
         LET r == get_database_overview(database, env)
         IN /\ database' = r.database
            /\ last' = [op |-> "get_database_overview", env |-> env,
                        db |-> database, db_calls |-> r.db_calls,
                        outcome |-> r.out]
    /\ pc' = "done"
    /\ UNCHANGED <<downloader, handle, init_returned, SETTINGS>>

\* manager.delete_stock_data(symbol, exchange, interval).
DeleteStockData ==
    /\ pc = "idle"
    /\ downloader \in Adapters
    /\ \E env \in StoreEnvs(database, DeleteOutcomes) :
         LET r == delete_stock_data(database, "AAPL", "NYSE", "DAILY", env)
         IN /\ database' = r.database
            /\ last' = [op |-> "delete_stock_data", env |-> env,
                        db |-> database, db_calls |-> r.db_calls,
                        outcome |-> r.out]
    /\ pc' = "done"
    /\ UNCHANGED <<downloader, handle, init_returned, SETTINGS>>

Next ==
    \/ Construct
    \/ ValidateRequest
    \/ InitConnectionVnpy
    \/ InitConnectionImport
    \/ DownloadBars
    \/ ConvertAkData
    \/ InitDatabase
    \/ DownloadStockData
    \/ DownloadMultipleStocks
    \/ InitDatasource
    \/ ValidateDownloadRequest
    \/ GetDatabaseOverview
    \/ DeleteStockData
    \/ Continue

Spec == Init /\ [][Next]_vars

\* ------------------------------------------------------------ one adapter, call after call

\* A second specification: one adapter object and a caller that makes
\* download_bars calls one after the other, with init_connection calls in
\* between; `last` remembers the call just made and the one before it.

\* The requests of the calls: every exchange, interval and symbol of
\* Requests, without date bounds.
SeqRequests == { r \in Requests : r.start_date = NoDate /\ r.end_date = NoDate }

\* What init_connection meets in the provider library.
SeqInitEnvs(cls) == IF cls = "vnpy" THEN DatafeedOutcomes ELSE ImportOutcomes

\* What is remembered of a call once the next one is made: its request and
\* what it returned.
Earlier(call) ==
    IF call = NoCall THEN NoCall
    ELSE [request |-> call.request, outcome |-> call.outcome]

SeqInit ==
    /\ downloader \in Adapters
    /\ handle = None
    /\ init_returned = "never"
    /\ SETTINGS = InitialSettings
    /\ database = None
    /\ pc = "idle"
    /\ last = NoCall

\* downloader.init_connection().
SeqInitConnection ==
    /\ pc = "idle"
    /\ \E env \in SeqInitEnvs(downloader) :
         LET r == IF downloader = "vnpy" THEN VnpyInitConnection(handle, env)
                  ELSE ImportInitConnection(handle, env)
         IN /\ handle' = r.handle
            /\ init_returned' = InitReturned(r.out)
    /\ UNCHANGED <<downloader, SETTINGS, database, pc, last>>

\* SeqDownloadBars on an adapter that keeps the Result of its last call and
\* hands it out again, without asking the provider, for an equal request.
SeqDownloadBars_Cached ==
    /\ pc = "idle"
    /\ \E request \in SeqRequests :
         \E resp \in Responses(downloader, handle, request) :
            last' = [op |-> "download_bars", request |-> request, resp |-> resp,
                     client |-> handle, prev |-> last,
                     outcome |->
                        IF /\ last # NoCall
                           /\ last.request = request
                           /\ last.outcome.value.success
                        THEN Return(last.outcome.value, << >>)
                        ELSE download_bars(downloader, handle, request, resp)]
    /\ pc' = "done"
    /\ UNCHANGED <<downloader, handle, init_returned, SETTINGS, database>>

\* downloader.download_bars(request), after the call held in `last`: the
\* method reads the provider handle, the request and what the provider
\* answers, and assigns no attribute of the adapter.
SeqDownloadBars ==
    /\ pc = "idle"
    /\ \E request \in SeqRequests :
         \E resp \in Responses(downloader, handle, request) :
            last' = [op |-> "download_bars", request |-> request, resp |-> resp,
                     client |-> handle, prev |-> last,
                     outcome |-> download_bars(downloader, handle, request, resp)]
    /\ pc' = "done"
    /\ UNCHANGED <<downloader, handle, init_returned, SETTINGS, database>>

\* The caller has the Result and turns to its next call; of the call made
\* the model keeps the request and the outcome.
SeqContinue ==
    /\ pc = "done"
    /\ pc' = "idle"
    /\ last' = Earlier(last)
    /\ UNCHANGED <<downloader, handle, init_returned, SETTINGS, database>>

SeqNext ==
    \/ SeqInitConnection
    \/ SeqDownloadBars
    \/ SeqContinue

SeqSpec == SeqInit /\ [][SeqNext]_vars

\* A download_bars call of the sequence has been made and got past the
\* pre-checks.
SeqAsked ==
    /\ pc = "done"
    /\ ReachesProvider(downloader, last.client, last.request)

\* ------------------------------------------------------------ claims

\* A download_bars call has just completed.
Downloaded == pc = "done" /\ last.op = "download_bars"

\* A download_stock_data call of the manager has just completed.
ManagerDownloaded == pc = "done" /\ last.op = "download_stock_data"

\* A DownloadResult has just been built directly by a caller.
Constructed == pc = "done" /\ last.op = "DownloadResult"

\* The provider client raised during the download_bars call just completed.
ProviderRaised ==
    /\ Downloaded
    /\ last.resp # NoResponse
    /\ IF downloader = "akshare"
       THEN \/ last.resp.primary.kind = "raise"
            \/ last.resp.secondary.kind = "raise"
       ELSE last.resp.kind = "raise"

\* C1: download_bars of each of the three adapters, in every adapter state
\* and for every request and provider behaviour, ends by returning a
\* DownloadResult for that request and never propagates an exception.
C1_DownloadBarsNeverRaises ==
    Downloaded =>
        /\ last.outcome.kind = "return"
        /\ last.outcome.value.request = last.request
        /\ last.outcome.value.success \in BOOLEAN

\* C1 witness: the native-feed provider returned a non-iterable value, the
\* loop over it raised, and download_bars still returned a Result.
C1_Witness ==
    /\ Downloaded
    /\ downloader = "vnpy"
    /\ last.resp.kind = "scalar"
    /\ last.outcome.kind = "return"
    /\ ~last.outcome.value.success

\* C2: after construction, whatever success flag was passed, success is
\* true if and only if the bar sequence is non-empty.
C2_SuccessIffBars ==
    (Constructed \/ Downloaded) =>
        (last.outcome.value.success <=> Len(last.outcome.value.bars) > 0)

\* C2 witness: a caller passed success=True with no bars and the Result
\* came out with success false.
C2_Witness ==
    /\ Constructed
    /\ last.args.success
    /\ last.args.bars = << >>
    /\ ~last.outcome.value.success

\* C3 as claimed: after construction, for any constructor arguments,
\* total_count equals the length of the bar sequence.
C3_TotalCountIsLen ==
    (Constructed \/ Downloaded) =>
        last.outcome.value.total_count = Len(last.outcome.value.bars)

\* C5: validate_request accepts exactly the requests with a supported
\* exchange, a supported interval and a non-empty symbol, and otherwise
\* reports the first failing check in the order exchange, interval, symbol.
C5_ValidateRequestOrder ==
    (pc = "done" /\ last.op = "validate_request") =>
        LET r == last.request
            v == last.outcome.value
            xOk == r.exchange \in get_supported_exchanges(downloader)
            iOk == is_support_interval(downloader, r.interval)
            sOk == r.symbol # ""
        IN /\ last.outcome.kind = "return"
           /\ v[1] <=> (xOk /\ iOk /\ sOk)
           /\ v[1] => v[2] = MsgEmpty
           /\ ~xOk => v[2] = MsgUnsupportedExchange(r.exchange)
           /\ (xOk /\ ~iOk) => v[2] = MsgUnsupportedInterval(r.interval)
           /\ (xOk /\ iOk /\ ~sOk) => v[2] = MsgEmptySymbol

\* C5 witness: a request with an unsupported exchange and an empty symbol
\* was rejected with the exchange message.
C5_Witness ==
    /\ pc = "done"
    /\ last.op = "validate_request"
    /\ last.request.exchange \notin get_supported_exchanges(downloader)
    /\ last.request.symbol = ""
    /\ last.outcome.value = <<FALSE, MsgUnsupportedExchange(last.request.exchange)>>

\* The request of the download_bars call just completed passes validation.
RequestValid == validate_request(downloader, last.request)[1]

\* The Result the call just completed returned.
result == last.outcome.value

\* The fixed 'not initialised' message of each downloader.
NotInitMsg(cls) ==
    CASE cls = "vnpy" -> MsgVnpyNotInit
      [] cls = "yfinance" -> MsgYfNotInit
      [] cls = "akshare" -> MsgAkNotInit

\* The 'no data retrieved' message of each downloader.
NoDataMsg(cls) ==
    CASE cls = "vnpy" -> MsgVnpyNoData
      [] cls = "yfinance" -> MsgYfNoData
      [] cls = "akshare" -> MsgAkNoData

\* The endpoint outcome the scraping adapter took its table from.
AkFetched(resp) ==
    IF AkRaisesAttributeError(resp.primary) THEN resp.secondary ELSE resp.primary

\* The exception of the provider that ended the provider calls of the call
\* just completed.
RaisedExc ==
    IF downloader = "akshare" THEN AkFetched(last.resp).exc ELSE last.resp.exc

\* C4 as claimed: in every DownloadResult, built directly by a caller or
\* returned by download_bars or by the manager, success = true implies an
\* empty error_msg.
C4_SuccessHasNoMessage ==
    (Constructed \/ Downloaded \/ ManagerDownloaded) =>
        (result.success => result.error_msg = MsgEmpty)

\* C4 amended: in every DownloadResult returned by download_bars of an
\* adapter or by download_stock_data of the manager, success = true implies
\* an empty error_msg.
C4_DownloadSuccessHasNoMessage ==
    (Downloaded \/ ManagerDownloaded) =>
        (result.success => result.error_msg = MsgEmpty)

\* C4 witness: a download returned bars, with success and no message.
C4_Witness ==
    /\ Downloaded
    /\ result.success
    /\ Len(result.bars) > 0
    /\ result.error_msg = MsgEmpty

\* C6 as claimed: once the last init_connection call has returned false,
\* a download_bars call (with a request that passes validation) returns
\* the fixed 'not initialised' failure and the provider is not invoked.
C6_FailedInitBlocksDownload ==
    (Downloaded /\ init_returned = "false" /\ RequestValid) =>
        /\ ~result.success
        /\ result.error_msg = NotInitMsg(downloader)
        /\ last.outcome.calls = << >>

\* C7: a download_bars call whose request fails validation, whose adapter
\* has no provider handle, or whose interval fails the adapter's own
\* check, returns its failure without any provider call.
C7_RejectedBeforeProvider ==
    (Downloaded /\ (\/ ~RequestValid
                    \/ handle = None
                    \/ (downloader = "akshare" /\ last.request.interval # "DAILY"))) =>
        /\ last.outcome.kind = "return"
        /\ ~result.success
        /\ last.outcome.calls = << >>

\* C7 witness: an initialised adapter rejected an invalid request and made
\* no provider call.
C7_Witness ==
    /\ Downloaded
    /\ handle # None
    /\ ~RequestValid
    /\ ~result.success
    /\ last.outcome.calls = << >>

\* C8 as claimed: when the provider client raises during download_bars,
\* the Result is a failure with no bars and the message
\* '<source> data download failed: <exception text>'.
C8_ProviderExceptionNamesSource ==
    ProviderRaised =>
        /\ ~result.success
        /\ result.bars = << >>
        /\ result.error_msg = <<downloader, DownloadFailedText, RaisedExc.text>>

\* C8 amended: an exception of the provider gives a failure with no bars
\* whose message is 'data download failed: <exception text>', with the
\* source name in front in the polling and scraping adapters and with no
\* source name in the native-feed adapter; in the scraping adapter an
\* AttributeError of an endpoint counts as that endpoint being unavailable:
\* the secondary endpoint is tried after the primary, and an AttributeError
\* of both gives the fixed 'endpoint unavailable' message.
C8_ProviderExceptionMessage ==
    ProviderRaised =>
        IF downloader = "akshare"
        THEN LET p == last.resp.primary
                 s == last.resp.secondary
             IN /\ (AkRaisesAttributeError(p) /\ AkRaisesAttributeError(s)) =>
                     (~result.success /\ result.error_msg = MsgAkNoEndpoint)
                /\ (AkFetched(last.resp).kind = "raise"
                      /\ ~AkRaisesAttributeError(AkFetched(last.resp))) =>
                     /\ ~result.success
                     /\ result.bars = << >>
                     /\ result.error_msg =
                          <<"akshare", DownloadFailedText, RaisedExc.text>>
        ELSE /\ ~result.success
             /\ result.bars = << >>
             /\ result.error_msg =
                  IF downloader = "yfinance"
                  THEN <<"yfinance", DownloadFailedText, RaisedExc.text>>
                  ELSE <<DownloadFailedText, RaisedExc.text>>

\* C8 witness: the secondary endpoint of the scraping adapter raised a
\* network error, which the Result's message embeds.
C8_Witness ==
    /\ ProviderRaised
    /\ downloader = "akshare"
    /\ last.resp.secondary.kind = "raise"
    /\ last.resp.secondary.exc.type = "Exception"
    /\ result.error_msg = <<"akshare", DownloadFailedText, "network error">>

\* The provider call of the download_bars call just completed ended without
\* an exception and the conversion of what it returned ended with no bars.
ZeroBarsConverted ==
    /\ Downloaded
    /\ last.resp # NoResponse
    /\ CASE downloader = "vnpy" ->
              last.resp.kind = "bars" /\ VnpyConvert(last.resp.bars) = << >>
         [] downloader = "yfinance" ->
              /\ last.resp.kind # "raise"
              /\ _convert_yf_data_to_vnpy(last.request, last.resp) = Return(<< >>, << >>)
         [] downloader = "akshare" ->
              LET o == AkFetched(last.resp)
                  f == AkFilter(last.request, o)
              IN /\ o.kind \in {"table", "none", "scalar"}
                 /\ f.kind = "return"
                 /\ _convert_ak_data_to_vnpy(last.request, f.value) = Return(<< >>, << >>)

\* C9: when the provider call completes without raising and conversion
\* yields zero bars, download_bars returns a failure with no bars and the
\* non-empty 'no data retrieved' message.
C9_EmptyIsSoftFailure ==
    ZeroBarsConverted =>
        /\ last.outcome.kind = "return"
        /\ ~result.success
        /\ result.bars = << >>
        /\ result.error_msg = NoDataMsg(downloader)
        /\ result.error_msg # MsgEmpty

\* C9 witness: the scraping provider returned rows, every one of them was
\* skipped, and the Result is the 'no data' failure.
C9_Witness ==
    /\ ZeroBarsConverted
    /\ downloader = "akshare"
    /\ AkFetched(last.resp).kind = "table"
    /\ AkFetched(last.resp).table.rows # << >>
    /\ result.error_msg = MsgAkNoData

\* C10 as claimed: an initialised scraping adapter answers a request with
\* a supported exchange, a non-empty symbol and an interval other than
\* daily with the 'only daily data is supported' failure.
C10_AkshareDailyOnlyMessage ==
    (/\ Downloaded
     /\ downloader = "akshare"
     /\ handle # None
     /\ last.request.exchange \in get_supported_exchanges("akshare")
     /\ last.request.symbol # ""
     /\ last.request.interval # "DAILY") =>
        (~result.success /\ result.error_msg = MsgAkDailyOnly)

\* The scraping adapter's download_bars has just completed after reaching
\* its endpoint calls.
AkAsked == Downloaded /\ downloader = "akshare" /\ last.resp # NoResponse

\* The calls of the outcome just returned that went to the function fn.
CallsTo(fn) == SelectSeq(last.outcome.calls, LAMBDA c : c.fn = fn)

\* C11: in one download_bars call of the scraping adapter the primary
\* endpoint is tried first and once (one call of stock_us_hist whenever the
\* client has the function, and the failed lookup of it otherwise); the
\* secondary endpoint stock_us_daily is called at most once, with the
\* request's symbol, and only after the primary attempt ended in the
\* AttributeError of an interface mismatch, and then it is tried whenever
\* the client has it; any other exception of the primary call never leads
\* to a call of the secondary endpoint.
C11_FallbackOnlyOnInterfaceMismatch ==
    AkAsked =>
        /\ Len(CallsTo("stock_us_hist")) =
             (IF last.resp.primary.kind = "unavailable" THEN 0 ELSE 1)
        /\ Len(CallsTo("stock_us_daily")) <= 1
        /\ \A i \in 1..Len(last.outcome.calls) :
             /\ last.outcome.calls[i].arg = last.request.symbol
             /\ (last.outcome.calls[i].fn = "stock_us_hist" => i = 1)
        /\ (Len(CallsTo("stock_us_daily")) = 1 <=>
              (/\ AkRaisesAttributeError(last.resp.primary)
               /\ last.resp.secondary.kind # "unavailable"))
        /\ ((/\ last.resp.primary.kind = "raise"
             /\ last.resp.primary.exc.type # "AttributeError") =>
               /\ CallsTo("stock_us_daily") = << >>
               /\ ~result.success)

\* C11 witness: the call of the primary endpoint raised an AttributeError,
\* the secondary endpoint returned a table, and the download succeeded
\* after one call of each, the primary first.
C11_Witness ==
    /\ AkAsked
    /\ last.resp.primary.kind = "raise"
    /\ last.resp.primary.exc.type = "AttributeError"
    /\ last.resp.secondary.kind = "table"
    /\ result.success
    /\ last.outcome.calls = <<Call("stock_us_hist", last.request.symbol),
                              Call("stock_us_daily", last.request.symbol)>>

\* C12: when both endpoint functions are missing from the client, the
\* scraping adapter's download_bars returns a failure with no bars and the
\* fixed 'endpoint unavailable' message, not the 'download failed' message.
C12_BothEndpointsUnavailable ==
    (/\ AkAsked
     /\ last.resp.primary.kind = "unavailable"
     /\ last.resp.secondary.kind = "unavailable") =>
        /\ last.outcome.kind = "return"
        /\ ~result.success
        /\ result.bars = << >>
        /\ result.error_msg = MsgAkNoEndpoint
        /\ result.error_msg # MsgAkFailed(AttrErrorNoAttribute)

\* C12 witness: both endpoints were missing and the fixed message came back.
C12_Witness ==
    /\ AkAsked
    /\ last.resp.primary.kind = "unavailable"
    /\ last.resp.secondary.kind = "unavailable"
    /\ result.error_msg = MsgAkNoEndpoint

\* A direct call of the scraping adapter's row conversion on a table has
\* just completed.
AkConverted ==
    /\ pc = "done"
    /\ last.op = "_convert_ak_data_to_vnpy"
    /\ last.df.kind = "table"

\* Whether one row of a table converts: its date text parses and its price
\* fields are numeric.
RowConverts(form, row) == DateParses(form) /\ row.price = "num"

\* C13: the row conversion of the scraping adapter never raises because of
\* a malformed row and returns exactly one bar for each row that converts,
\* in the order of the rows: n - k bars for n rows of which k do not convert.
C13_RowFailuresAreIsolated ==
    AkConverted =>
        LET rows == last.df.table.rows
            form == last.df.table.form
            good == SelectSeq(rows, LAMBDA r : RowConverts(form, r))
            k == Cardinality({ i \in 1..Len(rows) : ~RowConverts(form, rows[i]) })
            bars == last.outcome.value
        IN /\ last.outcome.kind = "return"
           /\ Len(bars) = Len(rows) - k
           /\ Len(bars) = Len(good)
           /\ \A i \in 1..Len(good) :
                bars[i] = BarData(last.request.symbol, last.request.exchange,
                                  good[i].day, last.request.interval, "akshare")

\* C13 witness: a table whose first row has a non-numeric price and whose
\* last row converts gave a bar for the last row.
C13_Witness ==
    /\ AkConverted
    /\ Len(last.df.table.rows) = MaxRows
    /\ ~RowConverts(last.df.table.form, last.df.table.rows[1])
    /\ RowConverts(last.df.table.form, last.df.table.rows[MaxRows])
    /\ Len(last.outcome.value) >= 1

\* C14: in a successful native-feed download_bars the returned bars are the
\* provider's bars, as many and in the same order, each with its own
\* provenance tag when that tag is non-empty and with 'vnpy_datafeed' when
\* it is empty or missing, and with every other field unchanged.
C14_GatewayNameFallback ==
    (Downloaded /\ downloader = "vnpy" /\ result.success) =>
        /\ last.resp.kind = "bars"
        /\ Len(result.bars) = Len(last.resp.bars)
        /\ \A i \in 1..Len(result.bars) :
             LET got == result.bars[i]
                 fed == last.resp.bars[i]
             IN /\ got.gateway_name =
                     (IF fed.gateway_name \in {NoAttr, ""}
                      THEN "vnpy_datafeed" ELSE fed.gateway_name)
                /\ got.symbol = fed.symbol
                /\ got.exchange = fed.exchange
                /\ got.datetime = fed.datetime
                /\ got.interval = fed.interval

\* C14 witness: a bar delivered with 'existing_gateway' kept it while its
\* sibling delivered with an empty tag got the fallback tag.
C14_Witness ==
    /\ Downloaded
    /\ downloader = "vnpy"
    /\ result.success
    /\ Len(result.bars) = 2
    /\ last.resp.bars[1].gateway_name = "existing_gateway"
    /\ result.bars[1].gateway_name = "existing_gateway"
    /\ last.resp.bars[2].gateway_name = ""
    /\ result.bars[2].gateway_name = "vnpy_datafeed"

\* An init_connection call has just completed.
InitCalled == pc = "done" /\ last.op = "init_connection"

\* The behaviours of the provider library under which the handle cannot be
\* imported, acquired or initialised.
InitFailures ==
    {"ImportError", "Exception", "get_datafeed raises", "init raises", "init False"}

\* C15: init_connection of every adapter returns and never propagates an
\* exception; it returns false when the provider library cannot be
\* imported or the handle cannot be acquired or initialised, also when the
\* handle's init routine raises.
C15_InitConnectionNeverRaises ==
    InitCalled =>
        /\ last.outcome.kind = "return"
        /\ last.outcome.value \in BOOLEAN
        /\ (last.env \in InitFailures => last.outcome.value = FALSE)

\* C15 witness: the init routine of the native feed raised and
\* init_connection returned false.
C15_Witness ==
    /\ InitCalled
    /\ downloader = "vnpy"
    /\ last.env = "init raises"
    /\ last.outcome.kind = "return"
    /\ last.outcome.value = FALSE

\* C16: when the native-feed adapter acquires a handle, init_connection
\* returns the result of the handle's init routine if the handle has one,
\* calling it once, and returns true without calling it if the handle has
\* none.
C16_InitResultPropagated ==
    (InitCalled /\ downloader = "vnpy"
       /\ last.env \in {"no init", "init True", "init False"}) =>
        /\ last.outcome.kind = "return"
        /\ last.outcome.value = (last.env # "init False")
        /\ Len(CallsTo("init")) = (IF last.env = "no init" THEN 0 ELSE 1)
        /\ handle = "datafeed"

\* C16 witness: the init routine returned false and so did init_connection.
C16_Witness ==
    /\ InitCalled
    /\ downloader = "vnpy"
    /\ last.env = "init False"
    /\ last.outcome.value = FALSE
    /\ Len(CallsTo("init")) = 1

\* The calls of the call just completed that went to the store's fn.
DbCallsTo(fn) == SelectSeq(last.db_calls, LAMBDA c : c.fn = fn)

\* A download_stock_data call for a source with a registered adapter has
\* just completed.
ManagerDownloadedFromAdapter == ManagerDownloaded /\ last.source # UnknownSource

\* C17: download_stock_data returns exactly the Result the adapter's
\* download_bars returned, whatever the save did: returned true, returned
\* false, raised, or could not get a store handle.
C17_SaveNeverChangesResult ==
    ManagerDownloadedFromAdapter =>
        /\ last.outcome.kind = "return"
        /\ last.outcome =
             download_bars(downloader, handle, last.request, last.resp)

\* C17 witness: the store's save raised and the successful Result came
\* back as the adapter built it.
C17_Witness ==
    /\ ManagerDownloadedFromAdapter
    /\ last.env.save = "raises"
    /\ last.outcome.kind = "return"
    /\ result.success
    /\ result.error_msg = MsgEmpty

\* Whether the call just completed was asked to save a successful Result
\* with bars.
ToBeSaved == last.save_to_db /\ result.success /\ result.bars # << >>

\* C18 as claimed: the store's save is invoked exactly once, with the
\* Result's bars, when save_to_db is true and the Result is successful with
\* bars, and never otherwise.
C18_SaveExactlyWhenWanted ==
    (ManagerDownloaded /\ last.outcome.kind = "return") =>
        IF ToBeSaved
        THEN DbCallsTo("save_bar_data") = <<Call("save_bar_data", result.bars)>>
        ELSE DbCallsTo("save_bar_data") = << >>

\* C18 amended: the store's save is invoked only when save_to_db is true
\* and the Result is successful with bars; in that case it is invoked
\* exactly once, with the Result's bars, if the manager holds a store
\* handle or the store factory delivers one, and not at all if the factory
\* raises; it is never invoked for a failed download or when save_to_db is
\* false.
C18_SaveWhenWantedAndStoreAvailable ==
    (ManagerDownloaded /\ last.outcome.kind = "return") =>
        IF ToBeSaved /\ (last.db # None \/ last.env.get = "db")
        THEN DbCallsTo("save_bar_data") = <<Call("save_bar_data", result.bars)>>
        ELSE DbCallsTo("save_bar_data") = << >>

\* C18 witness: a successful download with save_to_db true was saved once
\* through a handle the manager already held.
C18_Witness ==
    /\ ManagerDownloaded
    /\ last.outcome.kind = "return"
    /\ ToBeSaved
    /\ last.db # None
    /\ Len(DbCallsTo("save_bar_data")) = 1
    /\ DbCallsTo("get_database") = << >>

\* C19: download_stock_data for a source without a registered adapter
\* returns a failure with no bars and the 'unsupported data source'
\* message, calls no adapter and no provider, and leaves the store and the
\* manager's store handle alone.
C19_UnregisteredSourceFails ==
    (ManagerDownloaded /\ last.source = UnknownSource) =>
        /\ last.outcome.kind = "return"
        /\ ~result.success
        /\ result.bars = << >>
        /\ result.error_msg = MsgUnsupportedSource(last.source)
        /\ last.adapter_calls = << >>
        /\ last.outcome.calls = << >>
        /\ last.db_calls = << >>
        /\ database = last.db

\* C19 witness: a download asked of an unregistered source with
\* save_to_db true came back as the fixed failure.
C19_Witness ==
    /\ ManagerDownloaded
    /\ last.source = UnknownSource
    /\ last.save_to_db
    /\ last.outcome.kind = "return"
    /\ ~result.success
    /\ result.error_msg = MsgUnsupportedSource(UnknownSource)

\* A download_multiple_stocks call has just completed.
BatchDownloaded == pc = "done" /\ last.op = "download_multiple_stocks"

\* The Result a download of the i-th symbol alone gives under the
\* provider's i-th answer.
BatchExpected(i) ==
    ManagerDownload(downloader, handle, last.args.source,
                    BatchRequest(last.symbols[i], last.args), last.resps[i]).value

\* C20: download_multiple_stocks returns one Result per input symbol, the
\* i-th being the outcome of the download of the i-th symbol, calls the
\* registered adapter once per symbol in list order, and a failed download
\* neither stops nor changes the downloads after it.
C20_BatchIsSequential ==
    BatchDownloaded =>
        /\ last.outcome.kind = "return"
        /\ Len(last.outcome.value) = Len(last.symbols)
        /\ \A i \in 1..Len(last.outcome.value) :
             /\ last.outcome.value[i].request.symbol = last.symbols[i]
             /\ last.outcome.value[i] = BatchExpected(i)
        /\ (last.args.source # UnknownSource =>
              last.adapter_calls =
                [i \in 1..Len(last.symbols) |->
                   Call("download_bars", BatchRequest(last.symbols[i], last.args))])

\* C20 witness: in a batch of two symbols the download of the first failed
\* and the download of the second succeeded.
C20_Witness ==
    /\ BatchDownloaded
    /\ last.outcome.kind = "return"
    /\ Len(last.symbols) = 2
    /\ Len(last.outcome.value) = 2
    /\ ~last.outcome.value[1].success
    /\ last.outcome.value[2].success
    /\ Len(last.adapter_calls) = 2

\* A call of the Manager operation op has just completed.
ManagerCalled(op) == pc = "done" /\ last.op = op

\* Whether the provider answer resp to a download ends in an exception of
\* the endpoint the adapter takes its data from.
RespRaised(resp) ==
    IF resp = NoResponse THEN FALSE
    ELSE IF downloader = "akshare" THEN AkFetched(resp).kind = "raise"
    ELSE resp.kind = "raise"

\* C21: no Manager operation propagates an exception, whatever the
\* providers and the store do and whatever the source; a failure comes
\* back as a Result with success = false, as false, or as an empty list.
C21_ManagerNeverRaises ==
    /\ ManagerCalled("init_database") =>
         /\ last.outcome.kind = "return"
         /\ (last.env = "raises" => last.outcome.value = FALSE)
    /\ ManagerCalled("init_datasource") =>
         /\ last.outcome.kind = "return"
         /\ ((last.source = UnknownSource \/ last.env \in InitFailures) =>
               last.outcome.value = FALSE)
    /\ ManagerCalled("download_stock_data") =>
         /\ last.outcome.kind = "return"
         /\ ((last.source = UnknownSource \/ RespRaised(last.resp)) =>
               (~result.success /\ result.bars = << >>))
    /\ ManagerCalled("download_multiple_stocks") =>
         /\ last.outcome.kind = "return"
         /\ \A i \in 1..Len(last.symbols) :
              (last.args.source = UnknownSource \/ RespRaised(last.resps[i])) =>
                 ~last.outcome.value[i].success
    /\ ManagerCalled("validate_download_request") =>
         /\ last.outcome.kind = "return"
         /\ (last.source = UnknownSource => last.outcome.value[1] = FALSE)
    /\ ManagerCalled("get_database_overview") =>
         /\ last.outcome.kind = "return"
         /\ (("raises" \in {last.env.get, last.env.use}) =>
               last.outcome.value = << >>)
    /\ ManagerCalled("delete_stock_data") =>
         /\ last.outcome.kind = "return"
         /\ (("raises" \in {last.env.get, last.env.use}) =>
               last.outcome.value = FALSE)

\* C21 witness: the store raised during delete_stock_data, which returned
\* false.
C21_Witness ==
    /\ ManagerCalled("delete_stock_data")
    /\ last.env.use = "raises"
    /\ last.outcome.kind = "return"
    /\ last.outcome.value = FALSE

\* C24 as claimed: for the base class, which does not override it,
\* is_support_interval(interval) is true exactly when the interval is in
\* get_supported_intervals(), so validate_request rejects a weekly interval
\* on a supported exchange as an unsupported interval.
C24_DefaultIntervalIsMembership ==
    (pc = "done" /\ last.op = "validate_request" /\ downloader = "base") =>
        /\ is_support_interval("base", last.request.interval)
             <=> last.request.interval \in get_supported_intervals("base")
        /\ (/\ last.request.exchange \in get_supported_exchanges("base")
            /\ last.request.interval \notin get_supported_intervals("base")) =>
              last.outcome.value =
                <<FALSE, MsgUnsupportedInterval(last.request.interval)>>

\* C28 as claimed: whenever validate_download_request returns (true, ""),
\* the selected adapter's validate_request accepts the request built from
\* the same symbol, exchange and interval.
C28_ManagerValidationAgrees ==
    (/\ ManagerCalled("validate_download_request")
     /\ last.outcome.value = <<TRUE, MsgEmpty>>) =>
        validate_request(downloader, last.request) = <<TRUE, MsgEmpty>>

\* The store factory calls the Manager call just completed had to make: one
\* when it needed the store and the Manager held no handle, none otherwise.
FactoryCallsDue ==
    IF last.db # None THEN 0
    ELSE IF last.op = "download_stock_data"
    THEN (IF last.outcome.kind = "return" /\ ToBeSaved THEN 1 ELSE 0)
    ELSE 1

\* After a download_stock_data, get_database_overview or delete_stock_data
\* call: the factory was called only as due, a handle held before the call
\* is still the Manager's handle, and a handle the factory delivered is
\* kept.
HandleLazyAndCached ==
    (pc = "done" /\ last.op \in {"download_stock_data", "get_database_overview",
                                 "delete_stock_data"}) =>
        /\ Len(DbCallsTo("get_database")) = FactoryCallsDue
        /\ (last.db # None => database = last.db)
        /\ ((FactoryCallsDue = 1 /\ last.env.get = "db") => database = "db")
        /\ ((last.db = None /\ (FactoryCallsDue = 0 \/ last.env.get = "raises"))
              => database = None)

\* C23: the Manager holds no store handle after construction; the store
\* factory is called by a download to be saved, by get_database_overview
\* and by delete_stock_data exactly when they find no handle, and not by a
\* download with save_to_db false or an unsuccessful Result; a handle once
\* acquired is reused by these calls and the factory is not called again.
C23_StoreHandleLazyAndCached ==
    (database = None) /\ []HandleLazyAndCached

\* C23 witness: get_database_overview on a Manager that held a handle used
\* the store without calling the factory.
C23_Witness ==
    /\ ManagerCalled("get_database_overview")
    /\ last.db = "db"
    /\ database = "db"
    /\ last.db_calls = <<Call("get_bar_overview", << >>)>>

\* C25: download_bars of every adapter applies request validation, then the
\* provider-handle check, then the adapter's own interval check, and the
\* Result carries the message of the first check that fails: an invalid
\* request gets the validation message whatever the handle, a valid request
\* on an adapter without a handle gets the 'not initialised' message, and
\* the daily-only message of the scraping adapter is given only to a valid
\* request on an adapter that holds a handle.
C25_ChecksInOrder ==
    Downloaded =>
        LET v == validate_request(downloader, last.request)
        IN /\ last.outcome.kind = "return"
           /\ ~v[1] => /\ result = Result(last.request, << >>, FALSE, v[2])
                       /\ last.outcome.calls = << >>
           /\ (v[1] /\ handle = None) =>
                  /\ result = Result(last.request, << >>, FALSE, NotInitMsg(downloader))
                  /\ last.outcome.calls = << >>
           /\ (v[1] /\ handle # None) => result.error_msg # NotInitMsg(downloader)
           /\ (downloader = "akshare" /\ result.error_msg = MsgAkDailyOnly) =>
                  (v[1] /\ handle # None /\ last.request.interval # "DAILY")

\* C25 witness: an invalid request sent to an adapter without a provider
\* handle came back with the validation message.
C25_Witness ==
    /\ Downloaded
    /\ handle = None
    /\ ~RequestValid
    /\ result.error_msg = validate_request(downloader, last.request)[2]
    /\ result.error_msg # NotInitMsg(downloader)
    /\ ~result.success

\* C26 as claimed: the row conversion of the scraping adapter parses a date
\* text as YYYYMMDD only when it is an 8-character digit string, as
\* YYYY-MM-DD only when it is a 10-character ISO date, and with the flexible
\* parser otherwise, so that every row whose date text is a valid date in
\* whatever format, and whose prices are numeric, yields a bar, also when
\* the text is 8 or 10 characters long.
C26_ValidDateAlwaysYieldsBar ==
    (AkConverted /\ last.df.table.form # "junk") =>
        LET rows == last.df.table.rows
            good == SelectSeq(rows, LAMBDA r : r.price = "num")
            bars == last.outcome.value
        IN /\ last.outcome.kind = "return"
           /\ Len(bars) = Len(good)
           /\ \A i \in 1..Len(good) : bars[i].datetime = good[i].day

\* The day lies in the inclusive date range of the request of the call just
\* completed, one-sided when only one bound is given.
InRequestRange(day) ==
    /\ (last.request.start_date # NoDate => day >= last.request.start_date)
    /\ (last.request.end_date # NoDate => day <= last.request.end_date)

\* C27 as claimed: when the request of a scraping-adapter download has a
\* start or an end date and the table fetched has a date column, named
\* `date` or `Date`, every bar of the Result has its date in the inclusive
\* range of the request and every row in the range that converts has its
\* bar in the Result.
C27_DateRangeFiltered ==
    (/\ AkAsked
     /\ AkFetched(last.resp).kind = "table"
     /\ AkFetched(last.resp).table.dateCol \in {"date", "Date"}
     /\ (last.request.start_date # NoDate \/ last.request.end_date # NoDate)) =>
        LET t == AkFetched(last.resp).table
            wanted == SelectSeq(t.rows, LAMBDA r : InRequestRange(r.day)
                                                   /\ RowConverts(t.form, r))
        IN /\ last.outcome.kind = "return"
           /\ \A i \in 1..Len(result.bars) : InRequestRange(result.bars[i].datetime)
           /\ \A i \in 1..Len(wanted) :
                \E j \in 1..Len(result.bars) : result.bars[j].datetime = wanted[i].day

\* init_connection of the native-feed adapter has just completed.
VnpyInitCalled == pc = "done" /\ last.op = "init_connection" /\ downloader = "vnpy"

\* C29: init_connection of the native-feed adapter writes each of provider
\* name, username and password that is non-empty into SETTINGS, and has done
\* so when it calls get_datafeed(), also when that call raises; the setting
\* of a parameter passed as an empty string keeps the value it had, and no
\* other key of SETTINGS is written.
C29_SettingsWrittenBeforeHandle ==
    VnpyInitCalled =>
        LET args == last.args
            old == last.settings
        IN /\ SETTINGS.name = (IF args.datafeed_name # "" THEN args.datafeed_name
                                ELSE old.name)
           /\ SETTINGS.username = (IF args.username # "" THEN args.username
                                    ELSE old.username)
           /\ SETTINGS.password = (IF args.password # "" THEN args.password
                                    ELSE old.password)
           /\ SETTINGS.database_name = old.database_name
           /\ DOMAIN SETTINGS = DOMAIN old
           /\ CallsTo("get_datafeed") # << >>
           /\ last.seen = SETTINGS

\* C29 witness: a call with a username and no provider name, whose
\* get_datafeed() raised, left the username written and the provider name
\* of an earlier call in place.
C29_Witness ==
    /\ VnpyInitCalled
    /\ last.env = "get_datafeed raises"
    /\ last.args.datafeed_name = ""
    /\ last.args.username = "user"
    /\ last.settings.name = "rqdata"
    /\ last.settings.username = ""
    /\ SETTINGS.name = "rqdata"
    /\ SETTINGS.username = "user"
    /\ last.seen.username = "user"

\* The polling adapter's download_bars has just completed on a table of
\* which some row does not convert.
YfBadRowDownloaded ==
    /\ Downloaded
    /\ downloader = "yfinance"
    /\ last.resp # NoResponse
    /\ last.resp.kind = "table"
    /\ \E i \in 1..Len(last.resp.rows) : last.resp.rows[i].price = "bad"

\* C30: when the conversion of any row of the table the polling adapter
\* fetched raises, download_bars returns a Result with success false, no
\* bars and the 'download failed' message carrying the exception's text;
\* the bars of the rows before the failing row are not returned.
C30_YfConversionAllOrNothing ==
    YfBadRowDownloaded =>
        /\ last.outcome.kind = "return"
        /\ result = Result(last.request, << >>, FALSE, MsgYfFailed(ValueErrorNotFloat))
        /\ result.total_count = 0

\* C30 witness: a table whose first row converts and whose last row does
\* not gave a failure Result without bars.
C30_Witness ==
    /\ YfBadRowDownloaded
    /\ Len(last.resp.rows) = MaxRows
    /\ last.resp.rows[1].price = "num"
    /\ last.resp.rows[MaxRows].price = "bad"
    /\ result.bars = << >>
    /\ ~result.success
    /\ result.error_msg[2] = DownloadFailedText

\* The answer the Result of the call just made is built from: the value
\* the provider call returned or the exception it raised; for the scraping
\* adapter that of the endpoint the table was taken from.
SeqAnswer == IF downloader = "akshare" THEN AkFetched(last.resp) ELSE last.resp

\* The days of the rows the answer holds, none when it holds no rows.
SeqAnswerDays ==
    CASE downloader = "vnpy" ->
           { SeqAnswer.bars[i].datetime : i \in 1..Len(SeqAnswer.bars) }
      [] downloader = "yfinance" ->
           { SeqAnswer.rows[i].day : i \in 1..Len(SeqAnswer.rows) }
      [] downloader = "akshare" ->
           { SeqAnswer.table.rows[i].day : i \in 1..Len(SeqAnswer.table.rows) }

\* The Result of the call just made is built from the answer to that call
\* alone: it is for the call's request, it has bars only when the answer
\* holds rows, and each of its bars is for the request's symbol and for the
\* day of a row of the answer.
BuiltFromOwnAnswer ==
    /\ last.outcome.kind = "return"
    /\ last.outcome.value.request = last.request
    /\ (last.outcome.value.success => SeqAnswerDays # {})
    /\ \A i \in 1..Len(last.outcome.value.bars) :
         /\ last.outcome.value.bars[i].datetime \in SeqAnswerDays
         /\ last.outcome.value.bars[i].symbol = last.request.symbol

\* The native-feed and the polling adapter made exactly one provider query,
\* with the arguments of the request of the call just made.
OneOwnQuery ==
    /\ (downloader = "vnpy" =>
          last.outcome.calls = <<Call("query_bar_history", HistoryRequest(last.request))>>)
    /\ (downloader = "yfinance" =>
          last.outcome.calls = <<Call("history", YfHistoryArgs(last.request))>>)
    /\ \A i \in 1..Len(last.outcome.calls) :
         downloader = "akshare" => last.outcome.calls[i].arg = last.request.symbol

\* Neither endpoint function exists on the client of the scraping adapter.
NoEndpointOnClient ==
    /\ downloader = "akshare"
    /\ last.resp.primary.kind = "unavailable"
    /\ last.resp.secondary.kind = "unavailable"

\* C22 as claimed: nothing is cached between downloads: every download_bars
\* call that passes the pre-checks makes its own provider query (exactly
\* one in the native-feed and polling adapters), also when its request
\* equals that of the call before, and its Result is built only from that
\* query's answer.
C22_EveryCallQueries ==
    SeqAsked =>
        /\ Len(last.outcome.calls) >= 1
        /\ OneOwnQuery
        /\ BuiltFromOwnAnswer

\* C22 amended: every download_bars call that passes the pre-checks makes
\* its own provider query (exactly one in the native-feed and polling
\* adapters), also when its request equals that of the call before, and
\* its Result is built only from that query's answer; the one exception is
\* a scraping adapter whose client has neither endpoint function: there
\* is nothing to query, no query is made and the Result is the fixed
\* 'endpoint unavailable' failure.
C22_NothingCached ==
    SeqAsked =>
        /\ OneOwnQuery
        /\ BuiltFromOwnAnswer
        /\ (~NoEndpointOnClient => Len(last.outcome.calls) >= 1)
        /\ (NoEndpointOnClient =>
              /\ last.outcome.calls = << >>
              /\ last.outcome.value = Result(last.request, << >>, FALSE, MsgAkNoEndpoint))

\* C22 witness: two calls with equal requests, both answered by the
\* provider, the first with rows and a success, the second without rows:
\* the second asked the provider again and returned a failure.
C22_Witness ==
    /\ SeqAsked
    /\ last.prev # NoCall
    /\ last.prev.request = last.request
    /\ last.prev.outcome.value.success
    /\ last.prev.outcome.calls # << >>
    /\ SeqAnswerDays = {}
    /\ ~last.outcome.value.success
    /\ Len(last.outcome.calls) >= 1

====
